---------------------------- MODULE Spec2Model ----------------------------
(***************************************************************************)
(* Sigma-6 Poly voice module (SAMD21 firmware): the MIDI input parser and  *)
(* dispatcher (Sigma_6_Poly_voice.ino), the synth engine's control task    *)
(* and its audio interrupt (m0_synth_engine.ino), as one state machine.    *)
(*                                                                         *)
(* Conventions.  C arrays indexed from 0 are TLA+ tuples indexed from 1    *)
(* (element i of the C array is tuple[i+1]).  fixed_t is a signed 32-bit   *)
(* integer with a 20-bit fraction.  TLC's integers are 32 bits wide, so    *)
(* the 64-bit product of MultiplyFixed and the wrapping 32-bit product of  *)
(* the interrupt are computed digit by digit (base 2^15).  The firmware's  *)
(* single-precision float arithmetic (note frequency times multiplier,     *)
(* phase step) is computed exactly on the decimal table constants; the     *)
(* build's float rounding can differ from it in the lowest bits only.      *)
(* Pin writes (test points, gate LED, DAC) are not part of the state.      *)
(***************************************************************************)
EXTENDS Integers, Sequences, FiniteSets, TLC

(***************************************************************************)
(* Program constants (m0_synth_def.h)                                      *)
(***************************************************************************)
WAVE_TABLE_SIZE        == 2048
SAMPLE_RATE_HZ         == 32000
MAX_OSC_FREQ_HZ        == 12000
REVERB_DELAY_MAX_SIZE  == 2000
REVERB_ATTENUATION_PC  == 70
MIDI_MSG_MAX_LENGTH    == 16

NOTE_OFF_CMD           == 128
NOTE_ON_CMD            == 144
POLY_KEY_PRESS_CMD     == 160
CONTROL_CHANGE_CMD     == 176
PROGRAM_CHANGE_CMD     == 192
CHAN_PRESSURE_CMD      == 208
PITCH_BEND_CMD         == 224
SYS_EXCLUSIVE_MSG      == 240
SYSTEM_MSG_EOX         == 247
SYS_EXCL_REMI_ID       == 115

OMNI_ON_MONO           == 2
OMNI_OFF_MONO          == 4

AUDIO_CTRL_BY_PATCH    == 0
AUDIO_CTRL_CONST       == 1
AUDIO_CTRL_ENV1_VELO   == 2
AUDIO_CTRL_EXPRESS     == 3

VIBRATO_DISABLED       == 0
VIBRATO_BY_MODN_CC     == 1
VIBRATO_BY_CV_AUXIN    == 2
VIBRATO_AUTOMATIC      == 3

PITCH_BEND_BY_MIDI_MSG == 1

OSC_MODN_SOURCE_CONT_POS == 1
OSC_MODN_SOURCE_CONT_NEG == 2
OSC_MODN_SOURCE_ENV2     == 3
OSC_MODN_SOURCE_MODN     == 4
OSC_MODN_SOURCE_EXPR_POS == 5
OSC_MODN_SOURCE_EXPR_NEG == 6
OSC_MODN_SOURCE_LFO      == 7
OSC_MODN_SOURCE_VELO_POS == 8
OSC_MODN_SOURCE_VELO_NEG == 9

AMPLD_CTRL_CONST_MAX   == 0
AMPLD_CTRL_CONST_LOW   == 1
AMPLD_CTRL_ENV1_VELO   == 2
AMPLD_CTRL_EXPRESS     == 3

ENV_IDLE               == 0
ENV_ATTACK             == 1
ENV_PEAK_HOLD          == 2
ENV_DECAY              == 3
ENV_SUSTAIN            == 4
ENV_RELEASE            == 5

CONTOUR_IDLE           == 0
CONTOUR_DELAY          == 1
CONTOUR_RAMP           == 2
CONTOUR_HOLD           == 3

FIXED_MIN_LEVEL        == 1

(***************************************************************************)
(* Fixed-point macros and C integer arithmetic                             *)
(***************************************************************************)
IntToFixedPt(i) == i * 1048576

FIXED_MAX_LEVEL == IntToFixedPt(1) - 1


\* C integer division truncates toward zero (b # 0)
CDiv(a, b) ==
  LET n == IF a < 0 THEN -a ELSE a
      d == IF b < 0 THEN -b ELSE b
  IN  IF (a < 0) = (b < 0) THEN n \div d ELSE -(n \div d)

\* x >> n on a signed value is an arithmetic shift (floor division)
Shr(x, n) == x \div (2 ^ n)

\* two's-complement value of the 32-bit word  sign*2^31 + low31
Signed32(sign, low31) == IF sign = 0 THEN low31 ELSE (low31 - 2147483647) - 1

Abs(x) == IF x < 0 THEN -x ELSE x

\* the five base-2^15 digits of a*b, for 0 <= a, b <= 2^31 - 1
MulDigits(a, b) ==
  LET B  == 32768
      a0 == a % B
      a1 == (a \div B) % B
      a2 == a \div (B * B)
      b0 == b % B
      b1 == (b \div B) % B
      b2 == b \div (B * B)
      c0 == a0 * b0
      c1 == (a0 * b1 + a1 * b0) + (c0 \div B)
      c2 == (a0 * b2 + a1 * b1 + a2 * b0) + (c1 \div B)
      c3 == (a1 * b2 + a2 * b1) + (c2 \div B)
      c4 == (a2 * b2) + (c3 \div B)
  IN  << c0 % B, c1 % B, c2 % B, c3 % B, c4 >>

\* bits 20..51 of the product whose magnitude has the digits d, as a 32-bit
\* signed value; neg tells that the product is negative
ShiftedProduct(d, neg) ==
  LET \* floor(|v*w| / 2^20) = d[5]*2^40 + d[4]*2^25 + d[3]*2^10 + d[2] div 32
      exact == (d[1] = 0) /\ (d[2] % 32 = 0)
      small == (d[5] = 0) /\ (d[4] < 64)
      mag   == (d[4] % 64) * 33554432 + d[3] * 1024 + (d[2] \div 32)
      sbit  == (d[4] \div 64) % 2
  IN  IF small
        THEN IF neg THEN (IF exact THEN -mag ELSE -mag - 1) ELSE mag
        ELSE \* result does not fit: the store keeps the low 32 bits
             LET u == Signed32(sbit, mag)
             IN  IF ~neg THEN u
                 ELSE IF exact THEN (IF u = Signed32(1, 0) THEN u ELSE -u)
                 ELSE (-1 - u)

\* MultiplyFixed(v,w) = (((int64_t)v * w) >> 20), stored to a 32-bit fixed_t
MultiplyFixed(v, w) == ShiftedProduct(MulDigits(Abs(v), Abs(w)), (v < 0) # (w < 0))

\* bits 0..31 of the product whose magnitude has the digits d
LowProduct(d) ==
  Signed32((d[3] \div 2) % 2, d[1] + d[2] * 32768 + (d[3] % 2) * 1073741824)

\* -u in 32-bit signed arithmetic when neg, else u
Negate32(u, neg) == IF ~neg THEN u ELSE IF u = Signed32(1, 0) THEN u ELSE -u

\* a * b in 32-bit signed arithmetic (the low 32 bits of the product)
Mul32(a, b) ==
  Negate32(LowProduct(MulDigits(Abs(a), Abs(b))), (a < 0) # (b < 0))

\* a + b in 32-bit signed arithmetic
Add32(a, b) ==
  IF a >= 0 /\ b >= 0
    THEN (IF a > 2147483647 - b THEN ((a - 2147483647) - 1) + ((b - 2147483647) - 1) ELSE a + b)
  ELSE IF a < 0 /\ b < 0
    THEN (IF a < (-2147483647 - 1) - b THEN (a + 2147483647) + 1 + (b + 2147483647) + 1 ELSE a + b)
  ELSE a + b

\* floor(a * b / c) for a, b >= 0 and 0 < c < 2^29, without a wide product
RECURSIVE MulModStep(_, _, _)
MulModStep(r, b, c) ==
  \* << Q, R >> with r * b = Q * c + R, 0 <= R < c   (0 <= r < c)
  IF b = 0 THEN << 0, 0 >>
  ELSE LET h == MulModStep(r, b \div 2, c)
           t == 2 * h[2] + (b % 2) * r
       IN  << 2 * h[1] + (t \div c), t % c >>

MulDiv(a, b, c) == (a \div c) * b + MulModStep(a % c, b, c)[1]

FIXED_PT_HALF == IntToFixedPt(1) \div 2

MAX_CLIPPING_LEVEL == CDiv(IntToFixedPt(1) * 97, 100)

\* FractionPart(z,n) = ((z & 0xFFFFF) >> (20 - n))
FractionPart(z, n) == (z % 1048576) \div (2 ^ (20 - n))

(***************************************************************************)
(* Tables (m0_synth_engine.ino, Sigma_6_Poly_voice.ino)                    *)
(***************************************************************************)
\* g_FreqMultConst[] * 1000000  (0.5, 1, 1.333333, 1.5, 2, 3 .. 9)
g_FreqMultConst_x1000000 ==
  << 500000, 1000000, 1333333, 1500000, 2000000, 3000000,
     4000000, 5000000, 6000000, 7000000, 8000000, 9000000 >>

g_AmpldLevelLogScale_x1000 ==
  << 0, 5, 8, 11, 16, 22, 31, 44, 63, 88, 125, 177, 250, 353, 500, 707, 1000 >>

\* g_NoteFrequency[] * 10000, C0 (note 12) .. C9 (note 120)
g_NoteFrequency_x10000 ==
  << 163516, 173239, 183540, 194455, 206017, 218268, 231247, 244997,
     259566, 275000, 291353, 308677, 327032, 346478, 367081, 388909,
     412034, 436535, 462493, 489994, 519131, 550000, 582705, 617354,
     654064, 692957, 734162, 777817, 824069, 873071, 924986, 979989,
     1038260, 1100000, 1165410, 1234710, 1308130, 1385910, 1468320, 1555630,
     1648140, 1746140, 1849970, 1959980, 2076520, 2200000, 2330820, 2469420,
     2616260, 2771830, 2936650, 3111270, 3296280, 3492280, 3699940, 3919950,
     4153050, 4400000, 4661640, 4938830, 5232510, 5543650, 5873300, 6222540,
     6592550, 6984560, 7399890, 7839910, 8306090, 8800000, 9323280, 9877670,
     10465000, 11087300, 11746600, 12445100, 13185100, 13969100, 14799800, 15679800,
     16612200, 17600000, 18646600, 19755300, 20930000, 22174600, 23493200, 24890200,
     26370200, 27938300, 29599600, 31359600, 33224400, 35200000, 37293100, 39510700,
     41860100, 44349200, 46986400, 49780400, 52740400, 55876600, 59199200, 62719200,
     66448800, 70400000, 74586200, 79021400, 83720200 >>

g_base2exp ==
  << 8192, 8203, 8214, 8225, 8236, 8247, 8258, 8270, 8281, 8292, 8303, 8314,
     8326, 8337, 8348, 8360, 8371, 8382, 8394, 8405, 8416, 8428, 8439, 8451,
     8462, 8474, 8485, 8496, 8508, 8520, 8531, 8543, 8554, 8566, 8577, 8589,
     8601, 8612, 8624, 8636, 8647, 8659, 8671, 8683, 8694, 8706, 8718, 8730,
     8742, 8753, 8765, 8777, 8789, 8801, 8813, 8825, 8837, 8849, 8861, 8873,
     8885, 8897, 8909, 8921, 8933, 8945, 8957, 8969, 8981, 8994, 9006, 9018,
     9030, 9042, 9055, 9067, 9079, 9092, 9104, 9116, 9129, 9141, 9153, 9166,
     9178, 9191, 9203, 9215, 9228, 9240, 9253, 9266, 9278, 9291, 9303, 9316,
     9328, 9341, 9354, 9366, 9379, 9392, 9405, 9417, 9430, 9443, 9456, 9468,
     9481, 9494, 9507, 9520, 9533, 9546, 9559, 9572, 9584, 9597, 9610, 9624,
     9637, 9650, 9663, 9676, 9689, 9702, 9715, 9728, 9741, 9755, 9768, 9781,
     9794, 9808, 9821, 9834, 9848, 9861, 9874, 9888, 9901, 9914, 9928, 9941,
     9955, 9968, 9982, 9995, 10009, 10022, 10036, 10050, 10063, 10077, 10090, 10104,
     10118, 10132, 10145, 10159, 10173, 10187, 10200, 10214, 10228, 10242, 10256, 10270,
     10284, 10298, 10311, 10325, 10339, 10353, 10367, 10382, 10396, 10410, 10424, 10438,
     10452, 10466, 10480, 10495, 10509, 10523, 10537, 10552, 10566, 10580, 10594, 10609,
     10623, 10638, 10652, 10666, 10681, 10695, 10710, 10724, 10739, 10753, 10768, 10783,
     10797, 10812, 10826, 10841, 10856, 10871, 10885, 10900, 10915, 10930, 10944, 10959,
     10974, 10989, 11004, 11019, 11034, 11049, 11064, 11079, 11094, 11109, 11124, 11139,
     11154, 11169, 11184, 11199, 11214, 11230, 11245, 11260, 11275, 11291, 11306, 11321,
     11336, 11352, 11367, 11383, 11398, 11413, 11429, 11444, 11460, 11475, 11491, 11507,
     11522, 11538, 11553, 11569, 11585, 11600, 11616, 11632, 11648, 11663, 11679, 11695,
     11711, 11727, 11743, 11759, 11774, 11790, 11806, 11822, 11838, 11854, 11871, 11887,
     11903, 11919, 11935, 11951, 11967, 11984, 12000, 12016, 12032, 12049, 12065, 12081,
     12098, 12114, 12130, 12147, 12163, 12180, 12196, 12213, 12229, 12246, 12263, 12279,
     12296, 12312, 12329, 12346, 12363, 12379, 12396, 12413, 12430, 12447, 12463, 12480,
     12497, 12514, 12531, 12548, 12565, 12582, 12599, 12616, 12633, 12650, 12668, 12685,
     12702, 12719, 12736, 12754, 12771, 12788, 12805, 12823, 12840, 12858, 12875, 12892,
     12910, 12927, 12945, 12962, 12980, 12998, 13015, 13033, 13051, 13068, 13086, 13104,
     13121, 13139, 13157, 13175, 13193, 13211, 13228, 13246, 13264, 13282, 13300, 13318,
     13336, 13354, 13372, 13391, 13409, 13427, 13445, 13463, 13482, 13500, 13518, 13536,
     13555, 13573, 13591, 13610, 13628, 13647, 13665, 13684, 13702, 13721, 13739, 13758,
     13777, 13795, 13814, 13833, 13852, 13870, 13889, 13908, 13927, 13946, 13965, 13983,
     14002, 14021, 14040, 14059, 14078, 14098, 14117, 14136, 14155, 14174, 14193, 14212,
     14232, 14251, 14270, 14290, 14309, 14328, 14348, 14367, 14387, 14406, 14426, 14445,
     14465, 14484, 14504, 14524, 14543, 14563, 14583, 14603, 14622, 14642, 14662, 14682,
     14702, 14722, 14742, 14762, 14782, 14802, 14822, 14842, 14862, 14882, 14902, 14922,
     14943, 14963, 14983, 15003, 15024, 15044, 15064, 15085, 15105, 15126, 15146, 15167,
     15187, 15208, 15228, 15249, 15270, 15290, 15311, 15332, 15353, 15373, 15394, 15415,
     15436, 15457, 15478, 15499, 15520, 15541, 15562, 15583, 15604, 15625, 15646, 15668,
     15689, 15710, 15731, 15753, 15774, 15795, 15817, 15838, 15860, 15881, 15903, 15924,
     15946, 15967, 15989, 16011, 16032, 16054, 16076, 16098, 16119, 16141, 16163, 16185,
     16207, 16229, 16251, 16273, 16295, 16317, 16339, 16361, 16384, 16406, 16428, 16450,
     16472, 16495, 16517, 16540, 16562, 16584, 16607, 16629, 16652, 16674, 16697, 16720,
     16742, 16765, 16788, 16810, 16833, 16856, 16879, 16902, 16925, 16948, 16970, 16993,
     17016, 17040, 17063, 17086, 17109, 17132, 17155, 17179, 17202, 17225, 17248, 17272,
     17295, 17319, 17342, 17366, 17389, 17413, 17436, 17460, 17484, 17507, 17531, 17555,
     17578, 17602, 17626, 17650, 17674, 17698, 17722, 17746, 17770, 17794, 17818, 17842,
     17866, 17891, 17915, 17939, 17963, 17988, 18012, 18037, 18061, 18085, 18110, 18134,
     18159, 18184, 18208, 18233, 18258, 18282, 18307, 18332, 18357, 18382, 18407, 18431,
     18456, 18481, 18506, 18532, 18557, 18582, 18607, 18632, 18657, 18683, 18708, 18733,
     18759, 18784, 18810, 18835, 18861, 18886, 18912, 18937, 18963, 18989, 19014, 19040,
     19066, 19092, 19118, 19144, 19169, 19195, 19221, 19248, 19274, 19300, 19326, 19352,
     19378, 19404, 19431, 19457, 19483, 19510, 19536, 19563, 19589, 19616, 19642, 19669,
     19696, 19722, 19749, 19776, 19803, 19829, 19856, 19883, 19910, 19937, 19964, 19991,
     20018, 20045, 20073, 20100, 20127, 20154, 20181, 20209, 20236, 20264, 20291, 20319,
     20346, 20374, 20401, 20429, 20457, 20484, 20512, 20540, 20568, 20596, 20623, 20651,
     20679, 20707, 20735, 20764, 20792, 20820, 20848, 20876, 20905, 20933, 20961, 20990,
     21018, 21047, 21075, 21104, 21132, 21161, 21189, 21218, 21247, 21276, 21305, 21333,
     21362, 21391, 21420, 21449, 21478, 21507, 21537, 21566, 21595, 21624, 21653, 21683,
     21712, 21742, 21771, 21801, 21830, 21860, 21889, 21919, 21949, 21978, 22008, 22038,
     22068, 22098, 22128, 22158, 22188, 22218, 22248, 22278, 22308, 22338, 22369, 22399,
     22429, 22460, 22490, 22521, 22551, 22582, 22612, 22643, 22673, 22704, 22735, 22766,
     22797, 22827, 22858, 22889, 22920, 22951, 22983, 23014, 23045, 23076, 23107, 23139,
     23170, 23201, 23233, 23264, 23296, 23327, 23359, 23391, 23422, 23454, 23486, 23518,
     23549, 23581, 23613, 23645, 23677, 23709, 23742, 23774, 23806, 23838, 23870, 23903,
     23935, 23968, 24000, 24033, 24065, 24098, 24130, 24163, 24196, 24229, 24261, 24294,
     24327, 24360, 24393, 24426, 24459, 24492, 24526, 24559, 24592, 24625, 24659, 24692,
     24726, 24759, 24793, 24826, 24860, 24894, 24927, 24961, 24995, 25029, 25063, 25097,
     25131, 25165, 25199, 25233, 25267, 25301, 25336, 25370, 25404, 25439, 25473, 25508,
     25542, 25577, 25611, 25646, 25681, 25716, 25751, 25785, 25820, 25855, 25890, 25925,
     25961, 25996, 26031, 26066, 26102, 26137, 26172, 26208, 26243, 26279, 26314, 26350,
     26386, 26422, 26457, 26493, 26529, 26565, 26601, 26637, 26673, 26709, 26745, 26782,
     26818, 26854, 26891, 26927, 26964, 27000, 27037, 27073, 27110, 27147, 27183, 27220,
     27257, 27294, 27331, 27368, 27405, 27442, 27479, 27517, 27554, 27591, 27629, 27666,
     27704, 27741, 27779, 27816, 27854, 27892, 27930, 27967, 28005, 28043, 28081, 28119,
     28157, 28196, 28234, 28272, 28310, 28349, 28387, 28425, 28464, 28503, 28541, 28580,
     28619, 28657, 28696, 28735, 28774, 28813, 28852, 28891, 28930, 28969, 29009, 29048,
     29087, 29127, 29166, 29206, 29245, 29285, 29325, 29364, 29404, 29444, 29484, 29524,
     29564, 29604, 29644, 29684, 29724, 29764, 29805, 29845, 29886, 29926, 29967, 30007,
     30048, 30089, 30129, 30170, 30211, 30252, 30293, 30334, 30375, 30416, 30457, 30499,
     30540, 30581, 30623, 30664, 30706, 30747, 30789, 30831, 30873, 30914, 30956, 30998,
     31040, 31082, 31124, 31167, 31209, 31251, 31293, 31336, 31378, 31421, 31463, 31506,
     31549, 31591, 31634, 31677, 31720, 31763, 31806, 31849, 31892, 31935, 31979, 32022,
     32065, 32109, 32152, 32196, 32239, 32283, 32327, 32371, 32415, 32458, 32502, 32546,
     32591, 32635, 32679, 32723, 32768 >>

g_sine_wave ==
  << 0, 97, 196, 293, 392, 490, 588, 686, 785, 882, 981, 1079,
     1177, 1275, 1373, 1471, 1569, 1667, 1765, 1863, 1961, 2059, 2157, 2255,
     2353, 2451, 2548, 2647, 2745, 2842, 2940, 3038, 3135, 3233, 3331, 3428,
     3526, 3624, 3721, 3819, 3916, 4013, 4111, 4208, 4305, 4403, 4500, 4597,
     4694, 4791, 4888, 4986, 5083, 5179, 5276, 5373, 5469, 5566, 5663, 5759,
     5856, 5953, 6049, 6145, 6242, 6338, 6434, 6531, 6626, 6722, 6818, 6915,
     7010, 7106, 7202, 7297, 7393, 7488, 7583, 7679, 7774, 7870, 7964, 8059,
     8155, 8250, 8344, 8439, 8534, 8628, 8722, 8817, 8912, 9005, 9100, 9194,
     9288, 9381, 9475, 9569, 9663, 9756, 9850, 9943, 10037, 10129, 10223, 10316,
     10409, 10501, 10594, 10687, 10779, 10872, 10963, 11056, 11148, 11240, 11332, 11423,
     11515, 11607, 11699, 11790, 11880, 11972, 12063, 12154, 12245, 12335, 12425, 12516,
     12606, 12697, 12787, 12876, 12966, 13056, 13146, 13235, 13325, 13414, 13502, 13591,
     13680, 13769, 13858, 13946, 14035, 14123, 14210, 14298, 14386, 14474, 14561, 14649,
     14736, 14823, 14910, 14997, 15083, 15169, 15256, 15342, 15428, 15514, 15600, 15686,
     15771, 15857, 15942, 16027, 16112, 16197, 16281, 16366, 16450, 16534, 16618, 16702,
     16786, 16869, 16953, 17036, 17119, 17202, 17284, 17367, 17449, 17531, 17613, 17695,
     17777, 17858, 17940, 18021, 18102, 18183, 18263, 18344, 18424, 18504, 18584, 18665,
     18744, 18824, 18903, 18982, 19061, 19139, 19218, 19296, 19375, 19453, 19531, 19608,
     19686, 19763, 19840, 19917, 19994, 20071, 20147, 20223, 20299, 20375, 20451, 20526,
     20601, 20676, 20750, 20826, 20900, 20974, 21048, 21122, 21196, 21269, 21342, 21416,
     21488, 21561, 21633, 21706, 21778, 21849, 21921, 21993, 22064, 22134, 22206, 22276,
     22346, 22416, 22487, 22556, 22625, 22695, 22764, 22833, 22902, 22970, 23039, 23106,
     23174, 23242, 23309, 23376, 23443, 23510, 23577, 23643, 23708, 23775, 23840, 23906,
     23970, 24036, 24100, 24165, 24229, 24293, 24357, 24420, 24484, 24546, 24610, 24672,
     24735, 24796, 24859, 24920, 24982, 25043, 25104, 25165, 25225, 25286, 25345, 25406,
     25465, 25524, 25583, 25642, 25701, 25759, 25817, 25875, 25933, 25991, 26047, 26104,
     26161, 26217, 26274, 26330, 26385, 26441, 26496, 26550, 26605, 26660, 26713, 26768,
     26822, 26875, 26928, 26981, 27034, 27085, 27138, 27190, 27242, 27292, 27344, 27395,
     27446, 27496, 27546, 27596, 27645, 27695, 27744, 27792, 27841, 27889, 27937, 27985,
     28033, 28080, 28126, 28173, 28219, 28266, 28312, 28357, 28403, 28448, 28493, 28537,
     28582, 28625, 28669, 28712, 28755, 28798, 28841, 28883, 28926, 28967, 29009, 29050,
     29091, 29132, 29172, 29213, 29252, 29292, 29332, 29371, 29410, 29449, 29487, 29525,
     29562, 29600, 29637, 29673, 29710, 29747, 29783, 29819, 29854, 29889, 29924, 29958,
     29993, 30027, 30061, 30094, 30127, 30161, 30193, 30225, 30257, 30290, 30321, 30352,
     30383, 30414, 30444, 30474, 30503, 30534, 30563, 30591, 30621, 30649, 30676, 30705,
     30732, 30759, 30786, 30813, 30839, 30865, 30891, 30916, 30941, 30966, 30991, 31015,
     31040, 31063, 31086, 31109, 31132, 31155, 31177, 31199, 31220, 31242, 31263, 31284,
     31304, 31325, 31344, 31364, 31383, 31402, 31421, 31439, 31458, 31475, 31493, 31510,
     31527, 31543, 31560, 31576, 31591, 31607, 31623, 31637, 31652, 31666, 31680, 31694,
     31707, 31720, 31733, 31746, 31757, 31769, 31781, 31792, 31803, 31814, 31824, 31834,
     31844, 31853, 31863, 31872, 31880, 31888, 31896, 31904, 31912, 31918, 31925, 31932,
     31938, 31944, 31950, 31955, 31959, 31964, 31968, 31972, 31976, 31980, 31983, 31986,
     31989, 31991, 31993, 31995, 31996, 31997, 31998, 31998, 31999, 31998, 31998, 31997,
     31996, 31995, 31993, 31991, 31989, 31986, 31983, 31980, 31976, 31972, 31968, 31964,
     31959, 31955, 31950, 31944, 31938, 31932, 31925, 31918, 31912, 31904, 31896, 31888,
     31880, 31872, 31863, 31853, 31844, 31834, 31824, 31814, 31803, 31792, 31781, 31769,
     31757, 31746, 31733, 31720, 31707, 31694, 31680, 31666, 31652, 31637, 31623, 31607,
     31591, 31576, 31560, 31543, 31527, 31510, 31493, 31475, 31458, 31439, 31421, 31402,
     31383, 31364, 31344, 31325, 31304, 31284, 31263, 31242, 31220, 31199, 31177, 31155,
     31132, 31109, 31086, 31063, 31040, 31015, 30991, 30966, 30941, 30916, 30891, 30865,
     30839, 30813, 30786, 30759, 30732, 30705, 30676, 30649, 30621, 30591, 30563, 30534,
     30503, 30474, 30444, 30414, 30383, 30352, 30321, 30290, 30257, 30225, 30193, 30161,
     30127, 30094, 30061, 30027, 29993, 29958, 29924, 29889, 29854, 29819, 29783, 29747,
     29710, 29673, 29637, 29600, 29562, 29525, 29487, 29449, 29410, 29371, 29332, 29292,
     29252, 29213, 29172, 29132, 29091, 29050, 29009, 28967, 28926, 28883, 28841, 28798,
     28755, 28712, 28669, 28625, 28582, 28537, 28493, 28448, 28403, 28357, 28312, 28266,
     28219, 28173, 28126, 28080, 28033, 27985, 27937, 27889, 27841, 27792, 27744, 27695,
     27645, 27596, 27546, 27496, 27446, 27395, 27344, 27292, 27242, 27190, 27138, 27085,
     27034, 26981, 26928, 26875, 26822, 26768, 26713, 26660, 26605, 26550, 26496, 26441,
     26385, 26330, 26274, 26217, 26161, 26104, 26047, 25991, 25933, 25875, 25817, 25759,
     25701, 25642, 25583, 25524, 25465, 25406, 25345, 25286, 25225, 25165, 25104, 25043,
     24982, 24920, 24859, 24796, 24735, 24672, 24610, 24546, 24484, 24420, 24357, 24293,
     24229, 24165, 24100, 24036, 23970, 23906, 23840, 23775, 23708, 23643, 23577, 23510,
     23443, 23376, 23309, 23242, 23174, 23106, 23039, 22970, 22902, 22833, 22764, 22695,
     22625, 22556, 22487, 22416, 22346, 22276, 22206, 22134, 22064, 21993, 21921, 21849,
     21778, 21706, 21633, 21561, 21488, 21416, 21342, 21269, 21196, 21122, 21048, 20974,
     20900, 20826, 20750, 20676, 20601, 20526, 20451, 20375, 20299, 20223, 20147, 20071,
     19994, 19917, 19840, 19763, 19686, 19608, 19531, 19453, 19375, 19296, 19218, 19139,
     19061, 18982, 18903, 18824, 18744, 18665, 18584, 18504, 18424, 18344, 18263, 18183,
     18102, 18021, 17940, 17858, 17777, 17695, 17613, 17531, 17449, 17367, 17284, 17202,
     17119, 17036, 16953, 16869, 16786, 16702, 16618, 16534, 16450, 16366, 16281, 16197,
     16112, 16027, 15942, 15857, 15771, 15686, 15600, 15514, 15428, 15342, 15256, 15169,
     15083, 14997, 14910, 14823, 14736, 14649, 14561, 14474, 14386, 14298, 14210, 14123,
     14035, 13946, 13858, 13769, 13680, 13591, 13502, 13414, 13325, 13235, 13146, 13056,
     12966, 12876, 12787, 12697, 12606, 12516, 12425, 12335, 12245, 12154, 12063, 11972,
     11880, 11790, 11699, 11607, 11515, 11423, 11332, 11240, 11148, 11056, 10963, 10872,
     10779, 10687, 10594, 10501, 10409, 10316, 10223, 10129, 10037, 9943, 9850, 9756,
     9663, 9569, 9475, 9381, 9288, 9194, 9100, 9005, 8912, 8817, 8722, 8628,
     8534, 8439, 8344, 8250, 8155, 8059, 7964, 7870, 7774, 7679, 7583, 7488,
     7393, 7297, 7202, 7106, 7010, 6915, 6818, 6722, 6626, 6531, 6434, 6338,
     6242, 6145, 6049, 5953, 5856, 5759, 5663, 5566, 5469, 5373, 5276, 5179,
     5083, 4986, 4888, 4791, 4694, 4597, 4500, 4403, 4305, 4208, 4111, 4013,
     3916, 3819, 3721, 3624, 3526, 3428, 3331, 3233, 3135, 3038, 2940, 2842,
     2745, 2647, 2548, 2451, 2353, 2255, 2157, 2059, 1961, 1863, 1765, 1667,
     1569, 1471, 1373, 1275, 1177, 1079, 981, 882, 785, 686, 588, 490,
     392, 293, 196, 97, 0, -97, -196, -293, -392, -490, -588, -686,
     -785, -882, -981, -1079, -1177, -1275, -1373, -1471, -1569, -1667, -1765, -1863,
     -1961, -2059, -2157, -2255, -2353, -2451, -2548, -2647, -2745, -2842, -2940, -3038,
     -3135, -3233, -3331, -3428, -3526, -3624, -3721, -3819, -3916, -4013, -4111, -4208,
     -4305, -4403, -4500, -4597, -4694, -4791, -4888, -4986, -5083, -5179, -5276, -5373,
     -5469, -5566, -5663, -5759, -5856, -5953, -6049, -6145, -6242, -6338, -6434, -6531,
     -6626, -6722, -6818, -6915, -7010, -7106, -7202, -7297, -7393, -7488, -7583, -7679,
     -7774, -7870, -7964, -8059, -8155, -8250, -8344, -8439, -8534, -8628, -8722, -8817,
     -8912, -9005, -9100, -9194, -9288, -9381, -9475, -9569, -9663, -9756, -9850, -9943,
     -10037, -10129, -10223, -10316, -10409, -10501, -10594, -10687, -10779, -10872, -10963, -11056,
     -11148, -11240, -11332, -11423, -11515, -11607, -11699, -11790, -11880, -11972, -12063, -12154,
     -12245, -12335, -12425, -12516, -12606, -12697, -12787, -12876, -12966, -13056, -13146, -13235,
     -13325, -13414, -13502, -13591, -13680, -13769, -13858, -13946, -14035, -14123, -14210, -14298,
     -14386, -14474, -14561, -14649, -14736, -14823, -14910, -14997, -15083, -15169, -15256, -15342,
     -15428, -15514, -15600, -15686, -15771, -15857, -15942, -16027, -16112, -16197, -16281, -16366,
     -16450, -16534, -16618, -16702, -16786, -16869, -16953, -17036, -17119, -17202, -17284, -17367,
     -17449, -17531, -17613, -17695, -17777, -17858, -17940, -18021, -18102, -18183, -18263, -18344,
     -18424, -18504, -18584, -18665, -18744, -18824, -18903, -18982, -19061, -19139, -19218, -19296,
     -19375, -19453, -19531, -19608, -19686, -19763, -19840, -19917, -19994, -20071, -20147, -20223,
     -20299, -20375, -20451, -20526, -20601, -20676, -20750, -20826, -20900, -20974, -21048, -21122,
     -21196, -21269, -21342, -21416, -21488, -21561, -21633, -21706, -21778, -21849, -21921, -21993,
     -22064, -22134, -22206, -22276, -22346, -22416, -22487, -22556, -22625, -22695, -22764, -22833,
     -22902, -22970, -23039, -23106, -23174, -23242, -23309, -23376, -23443, -23510, -23577, -23643,
     -23708, -23775, -23840, -23906, -23970, -24036, -24100, -24165, -24229, -24293, -24357, -24420,
     -24484, -24546, -24610, -24672, -24735, -24796, -24859, -24920, -24982, -25043, -25104, -25165,
     -25225, -25286, -25345, -25406, -25465, -25524, -25583, -25642, -25701, -25759, -25817, -25875,
     -25933, -25991, -26047, -26104, -26161, -26217, -26274, -26330, -26385, -26441, -26496, -26550,
     -26605, -26660, -26713, -26768, -26822, -26875, -26928, -26981, -27034, -27085, -27138, -27190,
     -27242, -27292, -27344, -27395, -27446, -27496, -27546, -27596, -27645, -27695, -27744, -27792,
     -27841, -27889, -27937, -27985, -28033, -28080, -28126, -28173, -28219, -28266, -28312, -28357,
     -28403, -28448, -28493, -28537, -28582, -28625, -28669, -28712, -28755, -28798, -28841, -28883,
     -28926, -28967, -29009, -29050, -29091, -29132, -29172, -29213, -29252, -29292, -29332, -29371,
     -29410, -29449, -29487, -29525, -29562, -29600, -29637, -29673, -29710, -29747, -29783, -29819,
     -29854, -29889, -29924, -29958, -29993, -30027, -30061, -30094, -30127, -30161, -30193, -30225,
     -30257, -30290, -30321, -30352, -30383, -30414, -30444, -30474, -30503, -30534, -30563, -30591,
     -30621, -30649, -30676, -30705, -30732, -30759, -30786, -30813, -30839, -30865, -30891, -30916,
     -30941, -30966, -30991, -31015, -31040, -31063, -31086, -31109, -31132, -31155, -31177, -31199,
     -31220, -31242, -31263, -31284, -31304, -31325, -31344, -31364, -31383, -31402, -31421, -31439,
     -31458, -31475, -31493, -31510, -31527, -31543, -31560, -31576, -31591, -31607, -31623, -31637,
     -31652, -31666, -31680, -31694, -31707, -31720, -31733, -31746, -31757, -31769, -31781, -31792,
     -31803, -31814, -31824, -31834, -31844, -31853, -31863, -31872, -31880, -31888, -31896, -31904,
     -31912, -31918, -31925, -31932, -31938, -31944, -31950, -31955, -31959, -31964, -31968, -31972,
     -31976, -31980, -31983, -31986, -31989, -31991, -31993, -31995, -31996, -31997, -31998, -31998,
     -31999, -31998, -31998, -31997, -31996, -31995, -31993, -31991, -31989, -31986, -31983, -31980,
     -31976, -31972, -31968, -31964, -31959, -31955, -31950, -31944, -31938, -31932, -31925, -31918,
     -31912, -31904, -31896, -31888, -31880, -31872, -31863, -31853, -31844, -31834, -31824, -31814,
     -31803, -31792, -31781, -31769, -31757, -31746, -31733, -31720, -31707, -31694, -31680, -31666,
     -31652, -31637, -31623, -31607, -31591, -31576, -31560, -31543, -31527, -31510, -31493, -31475,
     -31458, -31439, -31421, -31402, -31383, -31364, -31344, -31325, -31304, -31284, -31263, -31242,
     -31220, -31199, -31177, -31155, -31132, -31109, -31086, -31063, -31040, -31015, -30991, -30966,
     -30941, -30916, -30891, -30865, -30839, -30813, -30786, -30759, -30732, -30705, -30676, -30649,
     -30621, -30591, -30563, -30534, -30503, -30474, -30444, -30414, -30383, -30352, -30321, -30290,
     -30257, -30225, -30193, -30161, -30127, -30094, -30061, -30027, -29993, -29958, -29924, -29889,
     -29854, -29819, -29783, -29747, -29710, -29673, -29637, -29600, -29562, -29525, -29487, -29449,
     -29410, -29371, -29332, -29292, -29252, -29213, -29172, -29132, -29091, -29050, -29009, -28967,
     -28926, -28883, -28841, -28798, -28755, -28712, -28669, -28625, -28582, -28537, -28493, -28448,
     -28403, -28357, -28312, -28266, -28219, -28173, -28126, -28080, -28033, -27985, -27937, -27889,
     -27841, -27792, -27744, -27695, -27645, -27596, -27546, -27496, -27446, -27395, -27344, -27292,
     -27242, -27190, -27138, -27085, -27034, -26981, -26928, -26875, -26822, -26768, -26713, -26660,
     -26605, -26550, -26496, -26441, -26385, -26330, -26274, -26217, -26161, -26104, -26047, -25991,
     -25933, -25875, -25817, -25759, -25701, -25642, -25583, -25524, -25465, -25406, -25345, -25286,
     -25225, -25165, -25104, -25043, -24982, -24920, -24859, -24796, -24735, -24672, -24610, -24546,
     -24484, -24420, -24357, -24293, -24229, -24165, -24100, -24036, -23970, -23906, -23840, -23775,
     -23708, -23643, -23577, -23510, -23443, -23376, -23309, -23242, -23174, -23106, -23039, -22970,
     -22902, -22833, -22764, -22695, -22625, -22556, -22487, -22416, -22346, -22276, -22206, -22134,
     -22064, -21993, -21921, -21849, -21778, -21706, -21633, -21561, -21488, -21416, -21342, -21269,
     -21196, -21122, -21048, -20974, -20900, -20826, -20750, -20676, -20601, -20526, -20451, -20375,
     -20299, -20223, -20147, -20071, -19994, -19917, -19840, -19763, -19686, -19608, -19531, -19453,
     -19375, -19296, -19218, -19139, -19061, -18982, -18903, -18824, -18744, -18665, -18584, -18504,
     -18424, -18344, -18263, -18183, -18102, -18021, -17940, -17858, -17777, -17695, -17613, -17531,
     -17449, -17367, -17284, -17202, -17119, -17036, -16953, -16869, -16786, -16702, -16618, -16534,
     -16450, -16366, -16281, -16197, -16112, -16027, -15942, -15857, -15771, -15686, -15600, -15514,
     -15428, -15342, -15256, -15169, -15083, -14997, -14910, -14823, -14736, -14649, -14561, -14474,
     -14386, -14298, -14210, -14123, -14035, -13946, -13858, -13769, -13680, -13591, -13502, -13414,
     -13325, -13235, -13146, -13056, -12966, -12876, -12787, -12697, -12606, -12516, -12425, -12335,
     -12245, -12154, -12063, -11972, -11880, -11790, -11699, -11607, -11515, -11423, -11332, -11240,
     -11148, -11056, -10963, -10872, -10779, -10687, -10594, -10501, -10409, -10316, -10223, -10129,
     -10037, -9943, -9850, -9756, -9663, -9569, -9475, -9381, -9288, -9194, -9100, -9005,
     -8912, -8817, -8722, -8628, -8534, -8439, -8344, -8250, -8155, -8059, -7964, -7870,
     -7774, -7679, -7583, -7488, -7393, -7297, -7202, -7106, -7010, -6915, -6818, -6722,
     -6626, -6531, -6434, -6338, -6242, -6145, -6049, -5953, -5856, -5759, -5663, -5566,
     -5469, -5373, -5276, -5179, -5083, -4986, -4888, -4791, -4694, -4597, -4500, -4403,
     -4305, -4208, -4111, -4013, -3916, -3819, -3721, -3624, -3526, -3428, -3331, -3233,
     -3135, -3038, -2940, -2842, -2745, -2647, -2548, -2451, -2353, -2255, -2157, -2059,
     -1961, -1863, -1765, -1667, -1569, -1471, -1373, -1275, -1177, -1079, -981, -882,
     -785, -686, -588, -490, -392, -293, -196, -97 >>

g_PresetPatch ==
  <<
    \* preset 00
    [ OscFreqMult |-> <<1, 4, 5, 6, 7, 8>>, OscAmpldModSource |-> <<0, 0, 0, 0, 0, 0>>,
      OscDetune |-> <<0, 0, 0, 0, 0, 0>>, MixerInputStep |-> <<15, 13, 11, 0, 0, 0>>,
      EnvAttackTime |-> 5, EnvHoldTime |-> 0, EnvDecayTime |-> 200, EnvSustainLevel |-> 80, EnvReleaseTime |-> 200, AmpControlMode |-> 2,
      ContourStartLevel |-> 5, ContourDelayTime |-> 20, ContourRampTime |-> 500, ContourHoldLevel |-> 95, Env2DecayTime |-> 500, Env2SustainLevel |-> 50,
      LFO_Freq_x10 |-> 50, LFO_RampTime |-> 500, LFO_FM_Depth |-> 20, LFO_AM_Depth |-> 20, MixerOutGain_x10 |-> 10, LimiterLevelPc |-> 0 ],
    \* preset 01
    [ OscFreqMult |-> <<1, 3, 5, 7, 9, 11>>, OscAmpldModSource |-> <<0, 0, 0, 0, 0, 0>>,
      OscDetune |-> <<0, 0, 0, 0, 0, 0>>, MixerInputStep |-> <<14, 12, 8, 8, 5, 0>>,
      EnvAttackTime |-> 10, EnvHoldTime |-> 70, EnvDecayTime |-> 1500, EnvSustainLevel |-> 0, EnvReleaseTime |-> 500, AmpControlMode |-> 2,
      ContourStartLevel |-> 5, ContourDelayTime |-> 20, ContourRampTime |-> 1000, ContourHoldLevel |-> 95, Env2DecayTime |-> 200, Env2SustainLevel |-> 16,
      LFO_Freq_x10 |-> 30, LFO_RampTime |-> 500, LFO_FM_Depth |-> 0, LFO_AM_Depth |-> 20, MixerOutGain_x10 |-> 33, LimiterLevelPc |-> 60 ],
    \* preset 02
    [ OscFreqMult |-> <<1, 4, 5, 6, 7, 8>>, OscAmpldModSource |-> <<0, 3, 3, 3, 0, 0>>,
      OscDetune |-> <<0, 0, 0, 0, 0, 0>>, MixerInputStep |-> <<14, 12, 13, 9, 9, 6>>,
      EnvAttackTime |-> 10, EnvHoldTime |-> 50, EnvDecayTime |-> 1500, EnvSustainLevel |-> 0, EnvReleaseTime |-> 300, AmpControlMode |-> 2,
      ContourStartLevel |-> 5, ContourDelayTime |-> 20, ContourRampTime |-> 1000, ContourHoldLevel |-> 95, Env2DecayTime |-> 700, Env2SustainLevel |-> 50,
      LFO_Freq_x10 |-> 30, LFO_RampTime |-> 500, LFO_FM_Depth |-> 0, LFO_AM_Depth |-> 20, MixerOutGain_x10 |-> 20, LimiterLevelPc |-> 50 ],
    \* preset 03
    [ OscFreqMult |-> <<1, 1, 1, 4, 6, 7>>, OscAmpldModSource |-> <<0, 0, 0, 0, 3, 3>>,
      OscDetune |-> <<-18, 0, 19, -14, 0, 16>>, MixerInputStep |-> <<13, 13, 13, 11, 9, 7>>,
      EnvAttackTime |-> 5, EnvHoldTime |-> 50, EnvDecayTime |-> 500, EnvSustainLevel |-> 0, EnvReleaseTime |-> 300, AmpControlMode |-> 2,
      ContourStartLevel |-> 5, ContourDelayTime |-> 20, ContourRampTime |-> 1000, ContourHoldLevel |-> 95, Env2DecayTime |-> 200, Env2SustainLevel |-> 50,
      LFO_Freq_x10 |-> 30, LFO_RampTime |-> 500, LFO_FM_Depth |-> 30, LFO_AM_Depth |-> 20, MixerOutGain_x10 |-> 7, LimiterLevelPc |-> 0 ],
    \* preset 04
    [ OscFreqMult |-> <<1, 4, 5, 8, 9, 10>>, OscAmpldModSource |-> <<0, 2, 1, 2, 7, 1>>,
      OscDetune |-> <<0, -21, 19, -27, -31, 0>>, MixerInputStep |-> <<12, 12, 12, 10, 12, 12>>,
      EnvAttackTime |-> 5, EnvHoldTime |-> 20, EnvDecayTime |-> 700, EnvSustainLevel |-> 0, EnvReleaseTime |-> 700, AmpControlMode |-> 2,
      ContourStartLevel |-> 5, ContourDelayTime |-> 50, ContourRampTime |-> 800, ContourHoldLevel |-> 80, Env2DecayTime |-> 500, Env2SustainLevel |-> 50,
      LFO_Freq_x10 |-> 100, LFO_RampTime |-> 500, LFO_FM_Depth |-> 0, LFO_AM_Depth |-> 55, MixerOutGain_x10 |-> 10, LimiterLevelPc |-> 0 ],
    \* preset 05
    [ OscFreqMult |-> <<1, 6, 9, 8, 0, 11>>, OscAmpldModSource |-> <<0, 0, 7, 0, 0, 0>>,
      OscDetune |-> <<0, 33, -35, 0, 0, 0>>, MixerInputStep |-> <<9, 13, 13, 0, 0, 0>>,
      EnvAttackTime |-> 5, EnvHoldTime |-> 100, EnvDecayTime |-> 2000, EnvSustainLevel |-> 0, EnvReleaseTime |-> 2000, AmpControlMode |-> 2,
      ContourStartLevel |-> 5, ContourDelayTime |-> 20, ContourRampTime |-> 500, ContourHoldLevel |-> 95, Env2DecayTime |-> 500, Env2SustainLevel |-> 50,
      LFO_Freq_x10 |-> 30, LFO_RampTime |-> 500, LFO_FM_Depth |-> 10, LFO_AM_Depth |-> 20, MixerOutGain_x10 |-> 10, LimiterLevelPc |-> 0 ],
    \* preset 06
    [ OscFreqMult |-> <<0, 1, 4, 6, 7, 11>>, OscAmpldModSource |-> <<7, 7, 0, 7, 0, 3>>,
      OscDetune |-> <<0, 0, 0, 0, 0, 0>>, MixerInputStep |-> <<0, 13, 0, 9, 0, 13>>,
      EnvAttackTime |-> 5, EnvHoldTime |-> 50, EnvDecayTime |-> 2000, EnvSustainLevel |-> 0, EnvReleaseTime |-> 2000, AmpControlMode |-> 2,
      ContourStartLevel |-> 0, ContourDelayTime |-> 0, ContourRampTime |-> 200, ContourHoldLevel |-> 100, Env2DecayTime |-> 500, Env2SustainLevel |-> 35,
      LFO_Freq_x10 |-> 80, LFO_RampTime |-> 5, LFO_FM_Depth |-> 0, LFO_AM_Depth |-> 40, MixerOutGain_x10 |-> 10, LimiterLevelPc |-> 0 ],
    \* preset 07
    [ OscFreqMult |-> <<1, 5, 6, 8, 9, 10>>, OscAmpldModSource |-> <<0, 0, 0, 1, 1, 1>>,
      OscDetune |-> <<0, 0, 0, 0, 0, 0>>, MixerInputStep |-> <<13, 7, 11, 8, 9, 8>>,
      EnvAttackTime |-> 5, EnvHoldTime |-> 200, EnvDecayTime |-> 2000, EnvSustainLevel |-> 4, EnvReleaseTime |-> 700, AmpControlMode |-> 2,
      ContourStartLevel |-> 25, ContourDelayTime |-> 0, ContourRampTime |-> 500, ContourHoldLevel |-> 95, Env2DecayTime |-> 500, Env2SustainLevel |-> 50,
      LFO_Freq_x10 |-> 50, LFO_RampTime |-> 500, LFO_FM_Depth |-> 20, LFO_AM_Depth |-> 20, MixerOutGain_x10 |-> 20, LimiterLevelPc |-> 60 ],
    \* preset 08
    [ OscFreqMult |-> <<0, 1, 5, 8, 0, 0>>, OscAmpldModSource |-> <<0, 0, 0, 3, 0, 0>>,
      OscDetune |-> <<0, 0, 0, -3, 4, 0>>, MixerInputStep |-> <<10, 13, 15, 12, 0, 0>>,
      EnvAttackTime |-> 10, EnvHoldTime |-> 0, EnvDecayTime |-> 400, EnvSustainLevel |-> 100, EnvReleaseTime |-> 300, AmpControlMode |-> 2,
      ContourStartLevel |-> 5, ContourDelayTime |-> 20, ContourRampTime |-> 600, ContourHoldLevel |-> 40, Env2DecayTime |-> 100, Env2SustainLevel |-> 50,
      LFO_Freq_x10 |-> 70, LFO_RampTime |-> 500, LFO_FM_Depth |-> 30, LFO_AM_Depth |-> 0, MixerOutGain_x10 |-> 7, LimiterLevelPc |-> 0 ],
    \* preset 09
    [ OscFreqMult |-> <<0, 1, 4, 5, 8, 0>>, OscAmpldModSource |-> <<0, 0, 0, 0, 3, 0>>,
      OscDetune |-> <<0, 0, -8, 4, -10, 0>>, MixerInputStep |-> <<11, 14, 7, 14, 11, 0>>,
      EnvAttackTime |-> 10, EnvHoldTime |-> 0, EnvDecayTime |-> 400, EnvSustainLevel |-> 100, EnvReleaseTime |-> 300, AmpControlMode |-> 2,
      ContourStartLevel |-> 5, ContourDelayTime |-> 20, ContourRampTime |-> 600, ContourHoldLevel |-> 40, Env2DecayTime |-> 200, Env2SustainLevel |-> 50,
      LFO_Freq_x10 |-> 70, LFO_RampTime |-> 500, LFO_FM_Depth |-> 30, LFO_AM_Depth |-> 0, MixerOutGain_x10 |-> 7, LimiterLevelPc |-> 0 ],
    \* preset 10
    [ OscFreqMult |-> <<0, 3, 1, 4, 6, 8>>, OscAmpldModSource |-> <<0, 0, 0, 0, 0, 0>>,
      OscDetune |-> <<0, 0, -6, -7, 0, 0>>, MixerInputStep |-> <<13, 13, 13, 13, 0, 0>>,
      EnvAttackTime |-> 10, EnvHoldTime |-> 0, EnvDecayTime |-> 400, EnvSustainLevel |-> 100, EnvReleaseTime |-> 300, AmpControlMode |-> 2,
      ContourStartLevel |-> 5, ContourDelayTime |-> 20, ContourRampTime |-> 600, ContourHoldLevel |-> 40, Env2DecayTime |-> 500, Env2SustainLevel |-> 50,
      LFO_Freq_x10 |-> 70, LFO_RampTime |-> 500, LFO_FM_Depth |-> 30, LFO_AM_Depth |-> 0, MixerOutGain_x10 |-> 7, LimiterLevelPc |-> 0 ],
    \* preset 11
    [ OscFreqMult |-> <<0, 3, 6, 0, 3, 6>>, OscAmpldModSource |-> <<0, 0, 0, 0, 0, 0>>,
      OscDetune |-> <<6, 5, 4, -6, -5, -4>>, MixerInputStep |-> <<13, 10, 10, 13, 10, 10>>,
      EnvAttackTime |-> 30, EnvHoldTime |-> 0, EnvDecayTime |-> 200, EnvSustainLevel |-> 100, EnvReleaseTime |-> 200, AmpControlMode |-> 2,
      ContourStartLevel |-> 5, ContourDelayTime |-> 20, ContourRampTime |-> 500, ContourHoldLevel |-> 95, Env2DecayTime |-> 500, Env2SustainLevel |-> 50,
      LFO_Freq_x10 |-> 50, LFO_RampTime |-> 500, LFO_FM_Depth |-> 15, LFO_AM_Depth |-> 0, MixerOutGain_x10 |-> 7, LimiterLevelPc |-> 0 ],
    \* preset 12
    [ OscFreqMult |-> <<1, 3, 4, 5, 7, 8>>, OscAmpldModSource |-> <<0, 0, 0, 0, 0, 3>>,
      OscDetune |-> <<0, -7, 12, 4, 0, 3>>, MixerInputStep |-> <<13, 3, 0, 9, 0, 15>>,
      EnvAttackTime |-> 10, EnvHoldTime |-> 0, EnvDecayTime |-> 400, EnvSustainLevel |-> 100, EnvReleaseTime |-> 300, AmpControlMode |-> 2,
      ContourStartLevel |-> 5, ContourDelayTime |-> 20, ContourRampTime |-> 600, ContourHoldLevel |-> 40, Env2DecayTime |-> 200, Env2SustainLevel |-> 25,
      LFO_Freq_x10 |-> 70, LFO_RampTime |-> 500, LFO_FM_Depth |-> 20, LFO_AM_Depth |-> 0, MixerOutGain_x10 |-> 7, LimiterLevelPc |-> 0 ],
    \* preset 13
    [ OscFreqMult |-> <<1, 4, 6, 8, 10, 0>>, OscAmpldModSource |-> <<0, 0, 0, 0, 3, 0>>,
      OscDetune |-> <<0, 4, -4, 3, -2, 3>>, MixerInputStep |-> <<13, 13, 0, 9, 13, 11>>,
      EnvAttackTime |-> 20, EnvHoldTime |-> 20, EnvDecayTime |-> 400, EnvSustainLevel |-> 70, EnvReleaseTime |-> 300, AmpControlMode |-> 2,
      ContourStartLevel |-> 5, ContourDelayTime |-> 20, ContourRampTime |-> 600, ContourHoldLevel |-> 40, Env2DecayTime |-> 500, Env2SustainLevel |-> 50,
      LFO_Freq_x10 |-> 70, LFO_RampTime |-> 500, LFO_FM_Depth |-> 30, LFO_AM_Depth |-> 0, MixerOutGain_x10 |-> 7, LimiterLevelPc |-> 0 ],
    \* preset 14
    [ OscFreqMult |-> <<1, 4, 6, 7, 8, 10>>, OscAmpldModSource |-> <<0, 0, 0, 0, 0, 6>>,
      OscDetune |-> <<0, -5, 0, 4, 0, 0>>, MixerInputStep |-> <<13, 14, 0, 9, 10, 9>>,
      EnvAttackTime |-> 50, EnvHoldTime |-> 0, EnvDecayTime |-> 200, EnvSustainLevel |-> 80, EnvReleaseTime |-> 200, AmpControlMode |-> 2,
      ContourStartLevel |-> 5, ContourDelayTime |-> 20, ContourRampTime |-> 600, ContourHoldLevel |-> 40, Env2DecayTime |-> 100, Env2SustainLevel |-> 50,
      LFO_Freq_x10 |-> 70, LFO_RampTime |-> 500, LFO_FM_Depth |-> 30, LFO_AM_Depth |-> 0, MixerOutGain_x10 |-> 7, LimiterLevelPc |-> 0 ],
    \* preset 15
    [ OscFreqMult |-> <<0, 1, 4, 5, 6, 7>>, OscAmpldModSource |-> <<0, 0, 0, 0, 0, 0>>,
      OscDetune |-> <<0, 0, 4, -3, 3, -3>>, MixerInputStep |-> <<8, 14, 13, 11, 10, 7>>,
      EnvAttackTime |-> 5, EnvHoldTime |-> 0, EnvDecayTime |-> 5, EnvSustainLevel |-> 100, EnvReleaseTime |-> 300, AmpControlMode |-> 2,
      ContourStartLevel |-> 0, ContourDelayTime |-> 50, ContourRampTime |-> 300, ContourHoldLevel |-> 100, Env2DecayTime |-> 500, Env2SustainLevel |-> 50,
      LFO_Freq_x10 |-> 70, LFO_RampTime |-> 500, LFO_FM_Depth |-> 20, LFO_AM_Depth |-> 0, MixerOutGain_x10 |-> 7, LimiterLevelPc |-> 0 ],
    \* preset 16
    [ OscFreqMult |-> <<0, 3, 1, 7, 8, 10>>, OscAmpldModSource |-> <<0, 0, 0, 1, 2, 1>>,
      OscDetune |-> <<3, -3, 0, -3, 3, -3>>, MixerInputStep |-> <<13, 12, 13, 8, 9, 11>>,
      EnvAttackTime |-> 30, EnvHoldTime |-> 0, EnvDecayTime |-> 10, EnvSustainLevel |-> 80, EnvReleaseTime |-> 500, AmpControlMode |-> 2,
      ContourStartLevel |-> 10, ContourDelayTime |-> 50, ContourRampTime |-> 300, ContourHoldLevel |-> 90, Env2DecayTime |-> 500, Env2SustainLevel |-> 50,
      LFO_Freq_x10 |-> 70, LFO_RampTime |-> 500, LFO_FM_Depth |-> 10, LFO_AM_Depth |-> 55, MixerOutGain_x10 |-> 7, LimiterLevelPc |-> 0 ],
    \* preset 17
    [ OscFreqMult |-> <<1, 3, 4, 5, 8, 0>>, OscAmpldModSource |-> <<0, 0, 0, 0, 0, 0>>,
      OscDetune |-> <<0, 0, 0, 0, 0, 0>>, MixerInputStep |-> <<0, 11, 14, 0, 0, 0>>,
      EnvAttackTime |-> 10, EnvHoldTime |-> 0, EnvDecayTime |-> 400, EnvSustainLevel |-> 100, EnvReleaseTime |-> 300, AmpControlMode |-> 2,
      ContourStartLevel |-> 5, ContourDelayTime |-> 20, ContourRampTime |-> 600, ContourHoldLevel |-> 40, Env2DecayTime |-> 500, Env2SustainLevel |-> 50,
      LFO_Freq_x10 |-> 70, LFO_RampTime |-> 500, LFO_FM_Depth |-> 30, LFO_AM_Depth |-> 0, MixerOutGain_x10 |-> 10, LimiterLevelPc |-> 0 ],
    \* preset 18
    [ OscFreqMult |-> <<0, 1, 4, 6, 7, 8>>, OscAmpldModSource |-> <<0, 0, 0, 3, 0, 3>>,
      OscDetune |-> <<0, 0, 0, 0, 0, 0>>, MixerInputStep |-> <<14, 12, 8, 10, 0, 12>>,
      EnvAttackTime |-> 5, EnvHoldTime |-> 0, EnvDecayTime |-> 200, EnvSustainLevel |-> 80, EnvReleaseTime |-> 200, AmpControlMode |-> 2,
      ContourStartLevel |-> 5, ContourDelayTime |-> 20, ContourRampTime |-> 500, ContourHoldLevel |-> 95, Env2DecayTime |-> 500, Env2SustainLevel |-> 50,
      LFO_Freq_x10 |-> 50, LFO_RampTime |-> 500, LFO_FM_Depth |-> 20, LFO_AM_Depth |-> 20, MixerOutGain_x10 |-> 33, LimiterLevelPc |-> 50 ],
    \* preset 19
    [ OscFreqMult |-> <<9, 5, 8, 1, 8, 5>>, OscAmpldModSource |-> <<7, 3, 3, 3, 7, 7>>,
      OscDetune |-> <<0, 0, 0, 0, 0, 0>>, MixerInputStep |-> <<4, 8, 2, 10, 14, 15>>,
      EnvAttackTime |-> 70, EnvHoldTime |-> 50, EnvDecayTime |-> 100, EnvSustainLevel |-> 50, EnvReleaseTime |-> 700, AmpControlMode |-> 2,
      ContourStartLevel |-> 0, ContourDelayTime |-> 200, ContourRampTime |-> 500, ContourHoldLevel |-> 100, Env2DecayTime |-> 3000, Env2SustainLevel |-> 50,
      LFO_Freq_x10 |-> 30, LFO_RampTime |-> 70, LFO_FM_Depth |-> 40, LFO_AM_Depth |-> 35, MixerOutGain_x10 |-> 7, LimiterLevelPc |-> 0 ],
    \* preset 20
    [ OscFreqMult |-> <<1, 4, 5, 6, 8, 10>>, OscAmpldModSource |-> <<0, 0, 0, 1, 1, 1>>,
      OscDetune |-> <<0, -14, 0, 23, 0, 0>>, MixerInputStep |-> <<15, 10, 4, 11, 8, 6>>,
      EnvAttackTime |-> 10, EnvHoldTime |-> 50, EnvDecayTime |-> 500, EnvSustainLevel |-> 0, EnvReleaseTime |-> 500, AmpControlMode |-> 2,
      ContourStartLevel |-> 20, ContourDelayTime |-> 0, ContourRampTime |-> 50, ContourHoldLevel |-> 80, Env2DecayTime |-> 200, Env2SustainLevel |-> 25,
      LFO_Freq_x10 |-> 100, LFO_RampTime |-> 0, LFO_FM_Depth |-> 0, LFO_AM_Depth |-> 0, MixerOutGain_x10 |-> 7, LimiterLevelPc |-> 0 ],
    \* preset 21
    [ OscFreqMult |-> <<0, 1, 2, 3, 4, 5>>, OscAmpldModSource |-> <<0, 0, 0, 7, 7, 7>>,
      OscDetune |-> <<0, 0, 0, 0, 0, 0>>, MixerInputStep |-> <<10, 0, 13, 14, 0, 14>>,
      EnvAttackTime |-> 30, EnvHoldTime |-> 300, EnvDecayTime |-> 1000, EnvSustainLevel |-> 25, EnvReleaseTime |-> 1000, AmpControlMode |-> 2,
      ContourStartLevel |-> 20, ContourDelayTime |-> 0, ContourRampTime |-> 200, ContourHoldLevel |-> 80, Env2DecayTime |-> 200, Env2SustainLevel |-> 25,
      LFO_Freq_x10 |-> 80, LFO_RampTime |-> 200, LFO_FM_Depth |-> 30, LFO_AM_Depth |-> 25, MixerOutGain_x10 |-> 7, LimiterLevelPc |-> 0 ],
    \* preset 22
    [ OscFreqMult |-> <<0, 1, 2, 3, 4, 5>>, OscAmpldModSource |-> <<6, 7, 6, 2, 0, 2>>,
      OscDetune |-> <<0, 0, 0, 0, 0, 0>>, MixerInputStep |-> <<5, 5, 4, 12, 8, 14>>,
      EnvAttackTime |-> 5, EnvHoldTime |-> 20, EnvDecayTime |-> 100, EnvSustainLevel |-> 0, EnvReleaseTime |-> 300, AmpControlMode |-> 2,
      ContourStartLevel |-> 20, ContourDelayTime |-> 0, ContourRampTime |-> 200, ContourHoldLevel |-> 80, Env2DecayTime |-> 1500, Env2SustainLevel |-> 25,
      LFO_Freq_x10 |-> 40, LFO_RampTime |-> 5, LFO_FM_Depth |-> 20, LFO_AM_Depth |-> 20, MixerOutGain_x10 |-> 7, LimiterLevelPc |-> 0 ],
    \* preset 23
    [ OscFreqMult |-> <<1, 4, 5, 6, 7, 8>>, OscAmpldModSource |-> <<0, 0, 1, 1, 1, 1>>,
      OscDetune |-> <<0, 0, 0, 0, 0, 0>>, MixerInputStep |-> <<14, 12, 11, 10, 9, 8>>,
      EnvAttackTime |-> 100, EnvHoldTime |-> 200, EnvDecayTime |-> 2000, EnvSustainLevel |-> 10, EnvReleaseTime |-> 70, AmpControlMode |-> 2,
      ContourStartLevel |-> 100, ContourDelayTime |-> 0, ContourRampTime |-> 300, ContourHoldLevel |-> 30, Env2DecayTime |-> 500, Env2SustainLevel |-> 50,
      LFO_Freq_x10 |-> 50, LFO_RampTime |-> 500, LFO_FM_Depth |-> 20, LFO_AM_Depth |-> 20, MixerOutGain_x10 |-> 10, LimiterLevelPc |-> 0 ],
    \* preset 24
    [ OscFreqMult |-> <<1, 5, 7, 9, 11, 0>>, OscAmpldModSource |-> <<0, 0, 5, 0, 5, 0>>,
      OscDetune |-> <<0, 0, 0, 0, 0, 0>>, MixerInputStep |-> <<14, 11, 13, 9, 13, 0>>,
      EnvAttackTime |-> 50, EnvHoldTime |-> 0, EnvDecayTime |-> 200, EnvSustainLevel |-> 80, EnvReleaseTime |-> 200, AmpControlMode |-> 3,
      ContourStartLevel |-> 5, ContourDelayTime |-> 20, ContourRampTime |-> 500, ContourHoldLevel |-> 95, Env2DecayTime |-> 500, Env2SustainLevel |-> 50,
      LFO_Freq_x10 |-> 50, LFO_RampTime |-> 500, LFO_FM_Depth |-> 20, LFO_AM_Depth |-> 0, MixerOutGain_x10 |-> 7, LimiterLevelPc |-> 0 ],
    \* preset 25
    [ OscFreqMult |-> <<1, 3, 4, 5, 6, 9>>, OscAmpldModSource |-> <<0, 0, 0, 0, 0, 0>>,
      OscDetune |-> <<0, 0, 0, 0, 0, 0>>, MixerInputStep |-> <<11, 0, 11, 12, 14, 0>>,
      EnvAttackTime |-> 30, EnvHoldTime |-> 0, EnvDecayTime |-> 200, EnvSustainLevel |-> 80, EnvReleaseTime |-> 200, AmpControlMode |-> 3,
      ContourStartLevel |-> 100, ContourDelayTime |-> 10, ContourRampTime |-> 1000, ContourHoldLevel |-> 25, Env2DecayTime |-> 500, Env2SustainLevel |-> 50,
      LFO_Freq_x10 |-> 50, LFO_RampTime |-> 500, LFO_FM_Depth |-> 20, LFO_AM_Depth |-> 0, MixerOutGain_x10 |-> 7, LimiterLevelPc |-> 0 ],
    \* preset 26
    [ OscFreqMult |-> <<1, 4, 5, 6, 7, 8>>, OscAmpldModSource |-> <<0, 0, 0, 0, 0, 0>>,
      OscDetune |-> <<0, 0, 0, 0, 0, 0>>, MixerInputStep |-> <<15, 9, 6, 0, 0, 5>>,
      EnvAttackTime |-> 50, EnvHoldTime |-> 0, EnvDecayTime |-> 200, EnvSustainLevel |-> 80, EnvReleaseTime |-> 200, AmpControlMode |-> 3,
      ContourStartLevel |-> 0, ContourDelayTime |-> 50, ContourRampTime |-> 300, ContourHoldLevel |-> 100, Env2DecayTime |-> 500, Env2SustainLevel |-> 50,
      LFO_Freq_x10 |-> 50, LFO_RampTime |-> 500, LFO_FM_Depth |-> 15, LFO_AM_Depth |-> 0, MixerOutGain_x10 |-> 10, LimiterLevelPc |-> 0 ],
    \* preset 27
    [ OscFreqMult |-> <<0, 3, 6, 0, 3, 6>>, OscAmpldModSource |-> <<0, 0, 0, 0, 0, 0>>,
      OscDetune |-> <<6, 5, 4, -6, -5, -4>>, MixerInputStep |-> <<13, 10, 10, 13, 10, 10>>,
      EnvAttackTime |-> 30, EnvHoldTime |-> 0, EnvDecayTime |-> 200, EnvSustainLevel |-> 80, EnvReleaseTime |-> 200, AmpControlMode |-> 3,
      ContourStartLevel |-> 5, ContourDelayTime |-> 20, ContourRampTime |-> 500, ContourHoldLevel |-> 95, Env2DecayTime |-> 500, Env2SustainLevel |-> 50,
      LFO_Freq_x10 |-> 50, LFO_RampTime |-> 500, LFO_FM_Depth |-> 15, LFO_AM_Depth |-> 0, MixerOutGain_x10 |-> 7, LimiterLevelPc |-> 0 ],
    \* preset 28
    [ OscFreqMult |-> <<1, 5, 6, 7, 8, 0>>, OscAmpldModSource |-> <<0, 0, 0, 0, 0, 0>>,
      OscDetune |-> <<0, 0, 0, 0, 0, 0>>, MixerInputStep |-> <<14, 9, 6, 12, 12, 0>>,
      EnvAttackTime |-> 30, EnvHoldTime |-> 0, EnvDecayTime |-> 200, EnvSustainLevel |-> 80, EnvReleaseTime |-> 200, AmpControlMode |-> 3,
      ContourStartLevel |-> 5, ContourDelayTime |-> 20, ContourRampTime |-> 500, ContourHoldLevel |-> 95, Env2DecayTime |-> 500, Env2SustainLevel |-> 50,
      LFO_Freq_x10 |-> 50, LFO_RampTime |-> 500, LFO_FM_Depth |-> 20, LFO_AM_Depth |-> 0, MixerOutGain_x10 |-> 10, LimiterLevelPc |-> 0 ],
    \* preset 29
    [ OscFreqMult |-> <<1, 3, 4, 5, 8, 0>>, OscAmpldModSource |-> <<0, 0, 0, 0, 3, 0>>,
      OscDetune |-> <<0, 4, -4, 3, -2, 3>>, MixerInputStep |-> <<13, 13, 10, 12, 14, 12>>,
      EnvAttackTime |-> 20, EnvHoldTime |-> 20, EnvDecayTime |-> 400, EnvSustainLevel |-> 70, EnvReleaseTime |-> 300, AmpControlMode |-> 3,
      ContourStartLevel |-> 5, ContourDelayTime |-> 20, ContourRampTime |-> 600, ContourHoldLevel |-> 40, Env2DecayTime |-> 500, Env2SustainLevel |-> 50,
      LFO_Freq_x10 |-> 70, LFO_RampTime |-> 500, LFO_FM_Depth |-> 30, LFO_AM_Depth |-> 0, MixerOutGain_x10 |-> 7, LimiterLevelPc |-> 0 ],
    \* preset 30
    [ OscFreqMult |-> <<1, 4, 5, 7, 8, 9>>, OscAmpldModSource |-> <<0, 5, 5, 5, 5, 5>>,
      OscDetune |-> <<0, 0, 0, 0, 0, 0>>, MixerInputStep |-> <<14, 12, 10, 10, 13, 13>>,
      EnvAttackTime |-> 70, EnvHoldTime |-> 0, EnvDecayTime |-> 200, EnvSustainLevel |-> 80, EnvReleaseTime |-> 200, AmpControlMode |-> 3,
      ContourStartLevel |-> 5, ContourDelayTime |-> 20, ContourRampTime |-> 500, ContourHoldLevel |-> 95, Env2DecayTime |-> 500, Env2SustainLevel |-> 50,
      LFO_Freq_x10 |-> 50, LFO_RampTime |-> 500, LFO_FM_Depth |-> 20, LFO_AM_Depth |-> 0, MixerOutGain_x10 |-> 25, LimiterLevelPc |-> 50 ],
    \* preset 31
    [ OscFreqMult |-> <<0, 1, 4, 5, 6, 7>>, OscAmpldModSource |-> <<5, 0, 5, 0, 5, 5>>,
      OscDetune |-> <<0, 0, 0, 0, 0, 0>>, MixerInputStep |-> <<9, 10, 13, 0, 13, 12>>,
      EnvAttackTime |-> 70, EnvHoldTime |-> 0, EnvDecayTime |-> 200, EnvSustainLevel |-> 80, EnvReleaseTime |-> 200, AmpControlMode |-> 3,
      ContourStartLevel |-> 0, ContourDelayTime |-> 50, ContourRampTime |-> 300, ContourHoldLevel |-> 100, Env2DecayTime |-> 500, Env2SustainLevel |-> 50,
      LFO_Freq_x10 |-> 50, LFO_RampTime |-> 500, LFO_FM_Depth |-> 20, LFO_AM_Depth |-> 0, MixerOutGain_x10 |-> 20, LimiterLevelPc |-> 50 ]
  >>

\* g_PresetPatch[] holds the patch fields of each preset (the name is not modelled)
GetNumberOfPresets == Len(g_PresetPatch)

(***************************************************************************)
(* State.  Each variable is a record of the C objects of one owner, under  *)
(* their source names.                                                     *)
(***************************************************************************)
VARIABLES
  rx,        \* statics of MidiInputService and ProcessControlChange, g_Midi*
  g_Config,  \* ConfigParams_t g_Config
  g_Patch,   \* PatchParamTable_t g_Patch (the active patch)
  m,         \* m_* statics of the engine, the generators' local statics
  v,         \* v_* volatile scalars shared with the audio interrupt
  isr,       \* statics of TC3_Handler and the reverb delay line
  pc,        \* position of the main loop: "loop" or the control-task step due
  hist       \* history variables (observers; the program has no such objects)

vars == << rx, g_Config, g_Patch, m, v, isr, pc, hist >>

\* the program state as one record, handed through the C call chain
Cur == [ rx |-> rx, cfg |-> g_Config, patch |-> g_Patch, m |-> m, v |-> v, isr |-> isr,
         hist |-> hist ]

Osc == 1 .. 6
Six(x) == << x, x, x, x, x, x >>
(***************************************************************************)
(* Reverb delay line: fixed_t ReverbDelayLine[REVERB_DELAY_MAX_SIZE], all  *)
(* zero at reset.  Only its non-zero cells are stored.                     *)
(***************************************************************************)
DelayRead(line, i) == IF i \in DOMAIN line THEN line[i] ELSE 0

DelayWrite(line, i, x) ==
  IF x = 0 THEN [ j \in (DOMAIN line) \ {i} |-> line[j] ]
  ELSE [ j \in (DOMAIN line) \cup {i} |-> IF j = i THEN x ELSE line[j] ]

(***************************************************************************)
(* Engine: preset load, note on/off  (m0_synth_engine.ino)                 *)
(***************************************************************************)
\* m_RvbDecay = FloatToFixed(powf(0.001f, 0.04 / 1.5)), a build-time constant
RVB_DECAY_FIXED == 872167

\* (int) (REVERB_LOOP_TIME_SEC * SAMPLE_RATE_HZ), with REVERB_LOOP_TIME_SEC = 0.04
RVB_DELAY_LEN == (4 * SAMPLE_RATE_HZ) \div 100

\* SynthPrepare restarting the reverb as well: delay-line index and previous
\* tap cleared
SynthPrepareClearsReverb(s) ==
  [ s EXCEPT
      !.v.v_SynthEnable     = 1,
      !.m.m_NoteOn          = FALSE,
      !.m.m_TriggerRelease1 = TRUE,
      !.m.m_TriggerRelease2 = TRUE,
      !.m.m_ExpressionLevel = 0,
      !.m.m_ModulationLevel = CDiv(IntToFixedPt(1) * 50, 100),
      !.m.m_KeyVelocity     = CDiv(IntToFixedPt(1) * 80, 100),
      !.m.m_RvbDelayLen     = RVB_DELAY_LEN,
      !.m.m_RvbDecay        = RVB_DECAY_FIXED,
      !.m.m_RvbAtten        = (REVERB_ATTENUATION_PC * 128) \div 100,
      !.m.m_RvbMix          = (s.cfg.ReverbMix_pc * 128) \div 100,
      !.isr.rvbIndex        = 0,
      !.isr.reverbPrev      = 0,
      !.hist.relSince       = TRUE,
      !.hist.gate           = "none" ]

SynthPrepare(s) ==
  [ s EXCEPT
      !.v.v_SynthEnable     = 1,
      !.m.m_NoteOn          = FALSE,
      !.m.m_TriggerRelease1 = TRUE,
      !.m.m_TriggerRelease2 = TRUE,
      !.m.m_ExpressionLevel = 0,
      !.m.m_ModulationLevel = CDiv(IntToFixedPt(1) * 50, 100),
      !.m.m_KeyVelocity     = CDiv(IntToFixedPt(1) * 80, 100),
      !.m.m_RvbDelayLen     = RVB_DELAY_LEN,
      !.m.m_RvbDecay        = RVB_DECAY_FIXED,
      !.m.m_RvbAtten        = (REVERB_ATTENUATION_PC * 128) \div 100,
      !.m.m_RvbMix          = (s.cfg.ReverbMix_pc * 128) \div 100,
      !.hist.relSince       = TRUE,
      !.hist.gate           = "none" ]

\* the note range of SynthNoteChange without the fold of the lowest octave
FoldNoteHighOnly(noteNum) ==
  LET n7 == noteNum % 128
  IN  IF n7 > 120 THEN n7 - 12 ELSE n7

\* the note number folded into the synth range, as SynthNoteChange and SynthNoteOff do
FoldNote(noteNum) ==
  LET n7 == noteNum % 128
      hi == IF n7 > 120 THEN n7 - 12 ELSE n7
  IN  IF hi < 12 THEN hi + 12 ELSE hi

\* oscFreq * 10000 = g_NoteFrequency[noteNum-12] * g_FreqMultConst[OscFreqMult[osc]]
OscFreq_x10000(patch, note, osc) ==
  MulDiv(g_NoteFrequency_x10000[(note - 12) + 1],
         g_FreqMultConst_x1000000[patch.OscFreqMult[osc] + 1], 1000000)

\* oscStep = (long) ((tableSize * oscFreq) / SAMPLE_RATE_HZ), tableSize = 2048 << 16;
\* (2048 * 65536) / (32000 * 10000) = 32768 / 78125
OscStepOf(freq_x10000) ==
  MulDiv(freq_x10000, (WAVE_TABLE_SIZE * 65536) \div 4096, (SAMPLE_RATE_HZ * 10000) \div 4096)

SynthNoteChange(s, noteNum) ==
  LET note == FoldNote(noteNum)
  IN  [ s EXCEPT
          !.m.m_NotePlaying = note,
          !.m.m_OscMuted    = [ osc \in Osc |->
                                  OscFreq_x10000(s.patch, note, osc) > MAX_OSC_FREQ_HZ * 10000 ],
          !.m.m_OscStepInit = [ osc \in Osc |-> OscStepOf(OscFreq_x10000(s.patch, note, osc)) ] ]

SynthTriggerAttack(s) ==
  [ s EXCEPT !.m.m_TriggerAttack1 = TRUE,
             !.m.m_TriggerAttack2 = TRUE,
             !.m.m_TriggerContour = TRUE,
             !.m.m_NoteOn         = TRUE ]

\* ENV1 at rest: idle segment, no trigger pending
Env1AtRest(s) ==
  /\ s.m.env1.EnvSegment = ENV_IDLE
  /\ ~s.m.m_TriggerAttack1
  /\ ~s.m.m_TriggerRelease1

\* Attack + Hold + 2 x Decay + 2 x Release of the active patch, in ticks
EnvCycleTicks(patch) ==
  patch.EnvAttackTime + patch.EnvHoldTime + 2 * patch.EnvDecayTime + 2 * patch.EnvReleaseTime

\* a legato note change that triggers the envelopes again
SynthNoteOnRetrigger(s, noteNum, velocity) ==
  LET h == [ s.hist EXCEPT !.relSince = FALSE,
                           !.gate = IF ~s.m.m_NoteOn /\ Env1AtRest(s) THEN "on" ELSE "none",
                           !.gateTicks = 0,
                           !.gateLimit = EnvCycleTicks(s.patch),
                           !.lastNote = noteNum,
                           !.earlier = IF s.m.m_NoteOn THEN s.hist.lastNote ELSE -1 ]
  IN
  IF ~s.m.m_NoteOn
    THEN LET s1 == SynthNoteChange(s, noteNum)
             s2 == [ s1 EXCEPT !.m.m_KeyVelocity = CDiv(IntToFixedPt(velocity), 128),
                               !.m.m_LegatoNoteChange = FALSE,
                               !.hist = h ]
         IN  SynthTriggerAttack(s2)
    ELSE SynthTriggerAttack([ SynthNoteChange(s, noteNum) EXCEPT !.m.m_LegatoNoteChange = TRUE,
                                                                 !.hist = h ])

SynthNoteOn(s, noteNum, velocity) ==
  LET h == [ s.hist EXCEPT !.relSince = FALSE,
                           !.gate = IF ~s.m.m_NoteOn /\ Env1AtRest(s) THEN "on" ELSE "none",
                           !.gateTicks = 0,
                           !.gateLimit = EnvCycleTicks(s.patch),
                           !.lastNote = noteNum,
                           !.earlier = IF s.m.m_NoteOn THEN s.hist.lastNote ELSE -1 ]
  IN
  IF ~s.m.m_NoteOn
    THEN LET s1 == SynthNoteChange(s, noteNum)
             s2 == [ s1 EXCEPT !.m.m_KeyVelocity = CDiv(IntToFixedPt(velocity), 128),
                               !.m.m_LegatoNoteChange = FALSE,
                               !.hist = h ]
         IN  SynthTriggerAttack(s2)
    ELSE [ SynthNoteChange(s, noteNum) EXCEPT !.m.m_LegatoNoteChange = TRUE, !.hist = h ]

SynthTriggerRelease(s) ==
  [ s EXCEPT !.m.m_TriggerRelease1 = TRUE,
             !.m.m_TriggerRelease2 = TRUE,
             !.m.m_TriggerReset    = TRUE,
             !.m.m_NoteOn          = FALSE,
             !.hist.relSince       = TRUE,
             !.hist.gate           = IF @ = "on" THEN "off" ELSE @ ]

SynthNoteOff(s, noteNum) ==
  IF FoldNote(noteNum) = s.m.m_NotePlaying THEN SynthTriggerRelease(s) ELSE s

SynthExpression(s, data14) ==
  LET levelMax == CDiv(IntToFixedPt(1) * 99, 100)
      level    == data14 * 64
  IN  [ s EXCEPT !.m.m_ExpressionLevel = IF level > levelMax THEN levelMax ELSE level ]

SynthPitchBend(s, bipolarPosn) ==
  LET posnScaled == CDiv(bipolarPosn * s.cfg.PitchBendRange, 12)
  IN  [ s EXCEPT !.m.m_PitchBendFactor = posnScaled * 128 ]

SynthModulation(s, data14) ==
  [ s EXCEPT !.m.m_ModulationLevel =
               IF data14 < 16 * 1024 THEN data14 * 64 ELSE FIXED_MAX_LEVEL ]

SynthLFO_PhaseSync(s) == [ s EXCEPT !.m.m_LFO_PhaseAngle = 0 ]

(***************************************************************************)
(* MIDI input: control change, program change, message dispatch            *)
(* (Sigma_6_Poly_voice.ino)                                                *)
(***************************************************************************)
\* PresetSelect with the preset number wrapped into the catalog instead of tested
PresetSelectWrapped(s, preset) ==
  [ SynthPrepare([ s EXCEPT !.patch = g_PresetPatch[(preset % GetNumberOfPresets) + 1] ])
      EXCEPT !.cfg.PresetLastSelected = preset % GetNumberOfPresets ]

\* PresetSelect that copies the preset but does not call SynthPrepare
PresetSelectNoPrepare(s, preset) ==
  IF preset < GetNumberOfPresets
    THEN [ s EXCEPT !.patch = g_PresetPatch[preset + 1], !.cfg.PresetLastSelected = preset ]
    ELSE s

\* PresetSelect that also selects registered parameter 0 again
PresetSelectResetsParam(s, preset) ==
  IF preset < GetNumberOfPresets
    THEN [ SynthPrepare([ s EXCEPT !.patch = g_PresetPatch[preset + 1] ])
             EXCEPT !.cfg.PresetLastSelected = preset, !.rx.g_MidiRegisParam = 0 ]
    ELSE s

PresetSelect(s, preset) ==
  IF preset < GetNumberOfPresets
    THEN [ SynthPrepare([ s EXCEPT !.patch = g_PresetPatch[preset + 1] ])
             EXCEPT !.cfg.PresetLastSelected = preset ]
    ELSE s

\* ProcessControlChange as it would be if controller 75 took the value 0 as
\* controller 74 does: the decay time could then be 0 ms.
ProcessControlChangeZeroDecay(s, midiMessage) ==
  LET CCnumber == midiMessage[1]
      dataByte == midiMessage[2]
      oscnum   == (dataByte \div 16) % 6
  IN
  CASE CCnumber \in {2, 7, 11} ->
         SynthExpression([ s EXCEPT !.rx.expressionHi = dataByte ], dataByte * 128)
    [] CCnumber \in {34, 39, 43} ->
         SynthExpression(s, s.rx.expressionHi * 128 + dataByte)
    [] CCnumber = 1 ->
         SynthModulation([ s EXCEPT !.rx.modulationHi = dataByte ], dataByte * 128)
    [] CCnumber = 33 ->
         SynthModulation(s, s.rx.modulationHi * 128 + dataByte)
    [] CCnumber = 100 -> [ s EXCEPT !.rx.g_MidiRegisParam = dataByte ]
    [] CCnumber = 38 ->
         LET s1 == IF s.rx.g_MidiRegisParam = 0 /\ dataByte <= 12
                     THEN [ s EXCEPT !.cfg.PitchBendRange = dataByte ] ELSE s
         IN  IF s.rx.g_MidiRegisParam = 1
               THEN [ s1 EXCEPT !.cfg.FineTuning_cents = dataByte - 64 ] ELSE s1
    [] CCnumber = 86 ->
         IF dataByte < 4 THEN [ s EXCEPT !.cfg.AudioAmpldCtrlMode = dataByte ] ELSE s
    [] CCnumber = 87 ->
         IF dataByte < 4 THEN [ s EXCEPT !.cfg.VibratoCtrlMode = dataByte ] ELSE s
    [] CCnumber = 88 ->
         IF dataByte < 4 THEN [ s EXCEPT !.cfg.PitchBendMode = dataByte ] ELSE s
    [] CCnumber = 89 ->
         IF dataByte <= 100 THEN [ s EXCEPT !.cfg.ReverbMix_pc = dataByte ] ELSE s
    [] CCnumber = 70 ->
         IF dataByte # 0 THEN [ s EXCEPT !.patch.MixerOutGain_x10 = dataByte ] ELSE s
    [] CCnumber = 71 ->
         IF dataByte <= 95 THEN [ s EXCEPT !.patch.LimiterLevelPc = dataByte ] ELSE s
    [] CCnumber = 72 ->
         IF dataByte # 0 /\ dataByte <= 100
           THEN [ s EXCEPT !.patch.EnvReleaseTime = dataByte * 100 ] ELSE s
    [] CCnumber = 73 ->
         IF dataByte # 0 /\ dataByte <= 100
           THEN [ s EXCEPT !.patch.EnvAttackTime = dataByte * 10 ] ELSE s
    [] CCnumber = 74 ->
         IF dataByte <= 100 THEN [ s EXCEPT !.patch.EnvHoldTime = dataByte * 10 ] ELSE s
    [] CCnumber = 75 ->
         IF dataByte <= 100
           THEN [ s EXCEPT !.patch.EnvDecayTime = dataByte * 100 ] ELSE s
    [] CCnumber = 76 ->
         IF dataByte <= 100 THEN [ s EXCEPT !.patch.EnvSustainLevel = dataByte ] ELSE s
    [] CCnumber = 77 ->
         IF dataByte # 0 /\ dataByte <= 50
           THEN [ s EXCEPT !.patch.LFO_Freq_x10 = dataByte * 10 ] ELSE s
    [] CCnumber = 78 ->
         IF dataByte <= 100 THEN [ s EXCEPT !.patch.LFO_RampTime = dataByte * 100 ] ELSE s
    [] CCnumber = 79 ->
         IF dataByte <= 120 THEN [ s EXCEPT !.patch.LFO_FM_Depth = dataByte * 5 ] ELSE s
    [] CCnumber = 80 ->
         [ s EXCEPT !.patch.MixerInputStep[oscnum + 1] = dataByte % 16 ]
    [] CCnumber = 112 -> SynthLFO_PhaseSync(s)
    [] CCnumber \in {120, 123} -> SynthPrepare(s)
    [] OTHER -> s

ProcessControlChange(s, midiMessage) ==
  LET CCnumber == midiMessage[1]
      dataByte == midiMessage[2]
      oscnum   == (dataByte \div 16) % 6
  IN
  CASE CCnumber \in {2, 7, 11} ->
         SynthExpression([ s EXCEPT !.rx.expressionHi = dataByte ], dataByte * 128)
    [] CCnumber \in {34, 39, 43} ->
         SynthExpression(s, s.rx.expressionHi * 128 + dataByte)
    [] CCnumber = 1 ->
         SynthModulation([ s EXCEPT !.rx.modulationHi = dataByte ], dataByte * 128)
    [] CCnumber = 33 ->
         SynthModulation(s, s.rx.modulationHi * 128 + dataByte)
    [] CCnumber = 100 -> [ s EXCEPT !.rx.g_MidiRegisParam = dataByte ]
    [] CCnumber = 38 ->
         LET s1 == IF s.rx.g_MidiRegisParam = 0 /\ dataByte <= 12
                     THEN [ s EXCEPT !.cfg.PitchBendRange = dataByte ] ELSE s
         IN  IF s.rx.g_MidiRegisParam = 1
               THEN [ s1 EXCEPT !.cfg.FineTuning_cents = dataByte - 64 ] ELSE s1
    [] CCnumber = 86 ->
         IF dataByte < 4 THEN [ s EXCEPT !.cfg.AudioAmpldCtrlMode = dataByte ] ELSE s
    [] CCnumber = 87 ->
         IF dataByte < 4 THEN [ s EXCEPT !.cfg.VibratoCtrlMode = dataByte ] ELSE s
    [] CCnumber = 88 ->
         IF dataByte < 4 THEN [ s EXCEPT !.cfg.PitchBendMode = dataByte ] ELSE s
    [] CCnumber = 89 ->
         IF dataByte <= 100 THEN [ s EXCEPT !.cfg.ReverbMix_pc = dataByte ] ELSE s
    [] CCnumber = 70 ->
         IF dataByte # 0 THEN [ s EXCEPT !.patch.MixerOutGain_x10 = dataByte ] ELSE s
    [] CCnumber = 71 ->
         IF dataByte <= 95 THEN [ s EXCEPT !.patch.LimiterLevelPc = dataByte ] ELSE s
    [] CCnumber = 72 ->
         IF dataByte # 0 /\ dataByte <= 100
           THEN [ s EXCEPT !.patch.EnvReleaseTime = dataByte * 100 ] ELSE s
    [] CCnumber = 73 ->
         IF dataByte # 0 /\ dataByte <= 100
           THEN [ s EXCEPT !.patch.EnvAttackTime = dataByte * 10 ] ELSE s
    [] CCnumber = 74 ->
         IF dataByte <= 100 THEN [ s EXCEPT !.patch.EnvHoldTime = dataByte * 10 ] ELSE s
    [] CCnumber = 75 ->
         IF dataByte # 0 /\ dataByte <= 100
           THEN [ s EXCEPT !.patch.EnvDecayTime = dataByte * 100 ] ELSE s
    [] CCnumber = 76 ->
         IF dataByte <= 100 THEN [ s EXCEPT !.patch.EnvSustainLevel = dataByte ] ELSE s
    [] CCnumber = 77 ->
         IF dataByte # 0 /\ dataByte <= 50
           THEN [ s EXCEPT !.patch.LFO_Freq_x10 = dataByte * 10 ] ELSE s
    [] CCnumber = 78 ->
         IF dataByte <= 100 THEN [ s EXCEPT !.patch.LFO_RampTime = dataByte * 100 ] ELSE s
    [] CCnumber = 79 ->
         IF dataByte <= 120 THEN [ s EXCEPT !.patch.LFO_FM_Depth = dataByte * 5 ] ELSE s
    [] CCnumber = 80 ->
         [ s EXCEPT !.patch.MixerInputStep[oscnum + 1] = dataByte % 16 ]
    [] CCnumber = 112 -> SynthLFO_PhaseSync(s)
    [] CCnumber \in {120, 123} -> SynthPrepare(s)
    [] OTHER -> s

\* (short)(leverPosn_Hi << 7) | leverPosn_Lo : the low seven bits of hi << 7 are
\* zero, so for a 7-bit low byte the bitwise OR is a sum; bit 7 of the low byte
\* coincides with bit 0 of the high byte
\* the lever word with the first data byte taken as the high part
BendWordSwapped(hi, lo) == lo * 128 + hi

BendWord(hi, lo) ==
  hi * 128 + (lo % 128) + (IF lo >= 128 /\ hi % 2 = 0 THEN 128 ELSE 0)

ProcessMidiSystemExclusive(s, midiMessage) ==
  IF midiMessage[1] = SYS_EXCL_REMI_ID THEN s ELSE s

\* ProcessMidiMessage that hands every Note-On to SynthNoteOn, velocity 0 included
ProcessMidiMessageZeroVelocityOn(s, midiMessage) ==
  LET statusByte == (midiMessage[0] \div 16) * 16
  IN
  CASE statusByte = NOTE_OFF_CMD -> SynthNoteOff(s, midiMessage[1])
    [] statusByte = NOTE_ON_CMD -> SynthNoteOn(s, midiMessage[1], midiMessage[2])
    [] statusByte = CONTROL_CHANGE_CMD -> ProcessControlChange(s, midiMessage)
    [] statusByte = PROGRAM_CHANGE_CMD -> PresetSelect(s, midiMessage[1])
    [] OTHER -> s

ProcessMidiMessage(s, midiMessage) ==
  LET statusByte == (midiMessage[0] \div 16) * 16
      noteNumber == midiMessage[1]
      velocity   == midiMessage[2]
  IN
  CASE statusByte = NOTE_OFF_CMD -> SynthNoteOff(s, noteNumber)
    [] statusByte = NOTE_ON_CMD ->
         IF velocity = 0 THEN SynthNoteOff(s, noteNumber)
                         ELSE SynthNoteOn(s, noteNumber, velocity)
    [] statusByte = CONTROL_CHANGE_CMD -> ProcessControlChange(s, midiMessage)
    [] statusByte = PROGRAM_CHANGE_CMD -> PresetSelect(s, midiMessage[1])
    [] statusByte = PITCH_BEND_CMD ->
         SynthPitchBend(s, BendWord(midiMessage[2], midiMessage[1]) - 8192)
    [] statusByte = SYS_EXCLUSIVE_MSG -> ProcessMidiSystemExclusive(s, midiMessage)
    [] OTHER -> s

MIDI_GetMessageLength(statusByte) ==
  LET command == (statusByte \div 16) * 16
      len2    == IF command \in {PROGRAM_CHANGE_CMD, CHAN_PRESSURE_CMD} THEN 2 ELSE 0
      len3    == IF command \in {NOTE_ON_CMD, NOTE_OFF_CMD, CONTROL_CHANGE_CMD, PITCH_BEND_CMD}
                   THEN 3 ELSE len2
  IN  IF statusByte = SYS_EXCLUSIVE_MSG THEN MIDI_MSG_MAX_LENGTH ELSE len3

(***************************************************************************)
(* MidiInputService: one received byte                                     *)
(***************************************************************************)
\* Objects a store past the end of midiMessage[] can land on: the statics
\* declared next to the array, or memory the program never reads ("none").
Clobber == { "none", "msgBytesExpected", "msgByteCount", "msgIndex", "msgStatus", "msgComplete" }

\* the low byte of a short replaced by the stored byte
LowByte(x, b) == (x \div 256) * 256 + b

\* midiMessage[msgIndex++] = b;  msgByteCount++;
StoreByte(r, b, clobber) ==
  IF r.msgIndex < MIDI_MSG_MAX_LENGTH
    THEN [ r EXCEPT !.midiMessage[r.msgIndex] = b, !.msgIndex = @ + 1, !.msgByteCount = @ + 1 ]
    ELSE LET r1 == [ r EXCEPT !.msgIndex = @ + 1 ]
             r2 == CASE clobber = "msgBytesExpected" ->
                          [ r1 EXCEPT !.msgBytesExpected = LowByte(@, b) ]
                      [] clobber = "msgByteCount" -> [ r1 EXCEPT !.msgByteCount = LowByte(@, b) ]
                      [] clobber = "msgIndex"     -> [ r1 EXCEPT !.msgIndex = LowByte(@, b) ]
                      [] clobber = "msgStatus"    -> [ r1 EXCEPT !.msgStatus = b ]
                      [] clobber = "msgComplete"  -> [ r1 EXCEPT !.msgComplete = TRUE ]
                      [] OTHER -> r1
         IN  [ r2 EXCEPT !.msgByteCount = @ + 1 ]

\* AcceptByte without the running-status restart of a data set
AcceptByteNoRunningStatus(r, msgByte, clobber) ==
  IF msgByte >= 128
    THEN IF msgByte = SYSTEM_MSG_EOX
           THEN StoreByte([ r EXCEPT !.msgComplete = TRUE ], msgByte, clobber)
           ELSE IF msgByte <= SYS_EXCLUSIVE_MSG
                  THEN [ r EXCEPT !.msgStatus = msgByte,
                                  !.msgComplete = FALSE,
                                  !.midiMessage[0] = msgByte,
                                  !.msgIndex = 1,
                                  !.msgByteCount = 1,
                                  !.msgBytesExpected = MIDI_GetMessageLength(msgByte) ]
                  ELSE r
    ELSE IF r.msgIndex < MIDI_MSG_MAX_LENGTH THEN StoreByte(r, msgByte, clobber) ELSE r

\* real-time bytes taken as status bytes that start a new frame
AcceptByteRealTimeStatus(r, msgByte, clobber) ==
  IF msgByte >= 128
    THEN IF msgByte = SYSTEM_MSG_EOX
           THEN StoreByte([ r EXCEPT !.msgComplete = TRUE ], msgByte, clobber)
           ELSE IF msgByte <= 255
                  THEN [ r EXCEPT !.msgStatus = msgByte,
                                  !.msgComplete = FALSE,
                                  !.midiMessage[0] = msgByte,
                                  !.msgIndex = 1,
                                  !.msgByteCount = 1,
                                  !.msgBytesExpected = MIDI_GetMessageLength(msgByte) ]
                  ELSE r
    ELSE LET r1 == IF r.msgComplete /\ r.msgStatus # SYS_EXCLUSIVE_MSG /\ r.msgByteCount = 0
                     THEN [ r EXCEPT !.msgIndex = 1,
                                     !.msgByteCount = 1,
                                     !.msgBytesExpected = MIDI_GetMessageLength(r.msgStatus) ]
                     ELSE r
         IN  IF r1.msgIndex < MIDI_MSG_MAX_LENGTH THEN StoreByte(r1, msgByte, clobber) ELSE r1

\* the branch on the received byte (status / EOX / real-time / data)
AcceptByte(r, msgByte, clobber) ==
  IF msgByte >= 128
    THEN IF msgByte = SYSTEM_MSG_EOX
           THEN StoreByte([ r EXCEPT !.msgComplete = TRUE ], msgByte, clobber)
           ELSE IF msgByte <= SYS_EXCLUSIVE_MSG
                  THEN [ r EXCEPT !.msgStatus = msgByte,
                                  !.msgComplete = FALSE,
                                  !.midiMessage[0] = msgByte,
                                  !.msgIndex = 1,
                                  !.msgByteCount = 1,
                                  !.msgBytesExpected = MIDI_GetMessageLength(msgByte) ]
                  ELSE r
    ELSE LET r1 == IF r.msgComplete /\ r.msgStatus # SYS_EXCLUSIVE_MSG /\ r.msgByteCount = 0
                     THEN [ r EXCEPT !.msgIndex = 1,
                                     !.msgByteCount = 1,
                                     !.msgBytesExpected = MIDI_GetMessageLength(r.msgStatus) ]
                     ELSE r
         IN  IF r1.msgIndex < MIDI_MSG_MAX_LENGTH THEN StoreByte(r1, msgByte, clobber) ELSE r1

\* a channel filter that lets every message through
ChannelAcceptedAlways(r) == r.msgIndex = r.msgIndex

\* the channel filter applied to a complete message
ChannelAccepted(r) ==
  LET msgChannel == (r.midiMessage[0] % 16) + 1
  IN  \/ msgChannel = r.g_MidiChannel
      \/ msgChannel = 16
      \/ r.g_MidiMode = OMNI_ON_MONO
      \/ r.msgStatus = SYS_EXCLUSIVE_MSG

NoEvent == << >>

MidiInputService(s, msgByte, clobber) ==
  LET gotSysExMsg == msgByte = SYSTEM_MSG_EOX
      r1       == AcceptByte(s.rx, msgByte, clobber)
      complete == (r1.msgByteCount # 0 /\ r1.msgByteCount = r1.msgBytesExpected) \/ gotSysExMsg
      r2       == IF complete THEN [ r1 EXCEPT !.msgComplete = TRUE ] ELSE r1
      past     == gotSysExMsg /\ s.rx.msgIndex >= MIDI_MSG_MAX_LENGTH
      s2       == [ s EXCEPT !.rx = r2,
                             !.hist.overrun = @ \/ past,
                             !.hist.event = NoEvent,
                             !.hist.nRejected =
                                 IF complete /\ ~ChannelAccepted(r2) THEN @ + 1 ELSE @,
                             !.hist.rejected =
                                 IF complete /\ ~ChannelAccepted(r2) THEN r2.midiMessage[0] ELSE @ ]
  IN  IF complete /\ ChannelAccepted(r2)
        THEN LET s3 == ProcessMidiMessage(s2, r2.midiMessage)
             IN  [ s3 EXCEPT !.rx.msgBytesExpected = 0,
                             !.rx.msgByteCount = 0,
                             !.rx.msgIndex = 0,
                             !.hist.event = << r2.midiMessage[0], r2.midiMessage[1],
                                               r2.midiMessage[2], r2.msgByteCount >> ]
        ELSE s2

(***************************************************************************)
(* Control task, 1 ms steps  (m0_synth_engine.ino)                         *)
(***************************************************************************)
\* the switch with DECAY and RELEASE allowed ten times the decay and release
\* time instead of twice
EnvSegmentStepTenfold(e, out, A, H, D, R, skipHold) ==
  CASE e.EnvSegment = ENV_IDLE -> << e, 0 >>
    [] e.EnvSegment = ENV_ATTACK ->
         LET out1 == IF out < e.ampldMaximum THEN out + e.ampldDelta ELSE out
         IN  IF e.envPhaseTimer + 1 >= A
               THEN << [ e EXCEPT !.envPhaseTimer = 0,
                                  !.EnvSegment = IF skipHold THEN ENV_SUSTAIN ELSE ENV_PEAK_HOLD ],
                       e.ampldMaximum >>
               ELSE << [ e EXCEPT !.envPhaseTimer = @ + 1 ], out1 >>
    [] e.EnvSegment = ENV_PEAK_HOLD ->
         IF e.envPhaseTimer + 1 >= H
           THEN << [ e EXCEPT !.timeConstant = D \div 5, !.envPhaseTimer = 0,
                              !.EnvSegment = ENV_DECAY ], out >>
           ELSE << [ e EXCEPT !.envPhaseTimer = @ + 1 ], out >>
    [] e.EnvSegment = ENV_DECAY ->
         LET d0   == CDiv(out - e.sustainLevel, e.timeConstant)
             d    == IF d0 = 0 THEN FIXED_MIN_LEVEL ELSE d0
             out1 == IF out >= e.sustainLevel + d THEN out - d ELSE out
         IN  << [ e EXCEPT !.ampldDelta = d, !.envPhaseTimer = @ + 1,
                           !.EnvSegment = IF e.envPhaseTimer + 1 >= D * 10
                                            THEN ENV_SUSTAIN ELSE ENV_DECAY ], out1 >>
    [] e.EnvSegment = ENV_RELEASE ->
         LET d0   == CDiv(out, e.timeConstant)
             d    == IF d0 = 0 THEN FIXED_MIN_LEVEL ELSE d0
             out1 == IF out >= d THEN out - d ELSE out
         IN  << [ e EXCEPT !.ampldDelta = d, !.envPhaseTimer = @ + 1,
                           !.EnvSegment = IF e.envPhaseTimer + 1 >= R * 10
                                            THEN ENV_IDLE ELSE ENV_RELEASE ], out1 >>
    [] OTHER -> << e, out >>

\* switch (EnvSegment) of the two envelope generators: e holds the statics,
\* out the generator's output; A, H, D, R are the attack, hold, decay and
\* release times the generator compares its timer with
EnvSegmentStep(e, out, A, H, D, R, skipHold) ==
  CASE e.EnvSegment = ENV_IDLE -> << e, 0 >>
    [] e.EnvSegment = ENV_ATTACK ->
         LET out1 == IF out < e.ampldMaximum THEN out + e.ampldDelta ELSE out
         IN  IF e.envPhaseTimer + 1 >= A
               THEN << [ e EXCEPT !.envPhaseTimer = 0,
                                  !.EnvSegment = IF skipHold THEN ENV_SUSTAIN ELSE ENV_PEAK_HOLD ],
                       e.ampldMaximum >>
               ELSE << [ e EXCEPT !.envPhaseTimer = @ + 1 ], out1 >>
    [] e.EnvSegment = ENV_PEAK_HOLD ->
         IF e.envPhaseTimer + 1 >= H
           THEN << [ e EXCEPT !.timeConstant = D \div 5, !.envPhaseTimer = 0,
                              !.EnvSegment = ENV_DECAY ], out >>
           ELSE << [ e EXCEPT !.envPhaseTimer = @ + 1 ], out >>
    [] e.EnvSegment = ENV_DECAY ->
         LET d0   == CDiv(out - e.sustainLevel, e.timeConstant)
             d    == IF d0 = 0 THEN FIXED_MIN_LEVEL ELSE d0
             out1 == IF out >= e.sustainLevel + d THEN out - d ELSE out
         IN  << [ e EXCEPT !.ampldDelta = d, !.envPhaseTimer = @ + 1,
                           !.EnvSegment = IF e.envPhaseTimer + 1 >= D * 2
                                            THEN ENV_SUSTAIN ELSE ENV_DECAY ], out1 >>
    [] e.EnvSegment = ENV_RELEASE ->
         LET d0   == CDiv(out, e.timeConstant)
             d    == IF d0 = 0 THEN FIXED_MIN_LEVEL ELSE d0
             out1 == IF out >= d THEN out - d ELSE out
         IN  << [ e EXCEPT !.ampldDelta = d, !.envPhaseTimer = @ + 1,
                           !.EnvSegment = IF e.envPhaseTimer + 1 >= R * 2
                                            THEN ENV_IDLE ELSE ENV_RELEASE ], out1 >>
    [] OTHER -> << e, out >>

\* ENV1 entering PEAK_HOLD at the end of the attack whatever the hold time
AmpldEnvelopeGeneratorNoSkip(s) ==
  LET p    == s.patch
      sus  == CDiv(IntToFixedPt(p.EnvSustainLevel), 100)
      max1 == IF p.EnvHoldTime = 0 THEN sus ELSE FIXED_MAX_LEVEL
      e1   == IF s.m.m_TriggerAttack1
                THEN [ s.m.env1 EXCEPT !.envPhaseTimer = 0,
                                       !.sustainLevel = sus,
                                       !.ampldMaximum = max1,
                                       !.ampldDelta = CDiv(max1, p.EnvAttackTime),
                                       !.EnvSegment = ENV_ATTACK ]
                ELSE s.m.env1
      \* the attack branch has cleared m_TriggerRelease1 before it is tested
      rel  == IF s.m.m_TriggerAttack1 THEN FALSE ELSE s.m.m_TriggerRelease1
      e2   == IF rel THEN [ e1 EXCEPT !.timeConstant = p.EnvReleaseTime \div 5,
                                      !.envPhaseTimer = 0,
                                      !.EnvSegment = ENV_RELEASE ]
                     ELSE e1
      r    == EnvSegmentStep(e2, s.m.m_ENV1_Output, p.EnvAttackTime, p.EnvHoldTime,
                             p.EnvDecayTime, p.EnvReleaseTime, FALSE)
  IN  [ s EXCEPT !.m.m_TriggerAttack1 = FALSE,
                 !.m.m_TriggerRelease1 = FALSE,
                 !.m.env1 = r[1],
                 !.m.m_ENV1_Output = r[2] ]

\* ENV1 with the attack always ramping to full scale, whatever the hold time
AmpldEnvelopeGeneratorFullAttack(s) ==
  LET p    == s.patch
      sus  == CDiv(IntToFixedPt(p.EnvSustainLevel), 100)
      max1 == FIXED_MAX_LEVEL
      e1   == IF s.m.m_TriggerAttack1
                THEN [ s.m.env1 EXCEPT !.envPhaseTimer = 0,
                                       !.sustainLevel = sus,
                                       !.ampldMaximum = max1,
                                       !.ampldDelta = CDiv(max1, p.EnvAttackTime),
                                       !.EnvSegment = ENV_ATTACK ]
                ELSE s.m.env1
      \* the attack branch has cleared m_TriggerRelease1 before it is tested
      rel  == IF s.m.m_TriggerAttack1 THEN FALSE ELSE s.m.m_TriggerRelease1
      e2   == IF rel THEN [ e1 EXCEPT !.timeConstant = p.EnvReleaseTime \div 5,
                                      !.envPhaseTimer = 0,
                                      !.EnvSegment = ENV_RELEASE ]
                     ELSE e1
      r    == EnvSegmentStep(e2, s.m.m_ENV1_Output, p.EnvAttackTime, p.EnvHoldTime,
                             p.EnvDecayTime, p.EnvReleaseTime, p.EnvHoldTime = 0)
  IN  [ s EXCEPT !.m.m_TriggerAttack1 = FALSE,
                 !.m.m_TriggerRelease1 = FALSE,
                 !.m.env1 = r[1],
                 !.m.m_ENV1_Output = r[2] ]

AmpldEnvelopeGenerator(s) ==
  LET p    == s.patch
      sus  == CDiv(IntToFixedPt(p.EnvSustainLevel), 100)
      max1 == IF p.EnvHoldTime = 0 THEN sus ELSE FIXED_MAX_LEVEL
      e1   == IF s.m.m_TriggerAttack1
                THEN [ s.m.env1 EXCEPT !.envPhaseTimer = 0,
                                       !.sustainLevel = sus,
                                       !.ampldMaximum = max1,
                                       !.ampldDelta = CDiv(max1, p.EnvAttackTime),
                                       !.EnvSegment = ENV_ATTACK ]
                ELSE s.m.env1
      \* the attack branch has cleared m_TriggerRelease1 before it is tested
      rel  == IF s.m.m_TriggerAttack1 THEN FALSE ELSE s.m.m_TriggerRelease1
      e2   == IF rel THEN [ e1 EXCEPT !.timeConstant = p.EnvReleaseTime \div 5,
                                      !.envPhaseTimer = 0,
                                      !.EnvSegment = ENV_RELEASE ]
                     ELSE e1
      r    == EnvSegmentStep(e2, s.m.m_ENV1_Output, p.EnvAttackTime, p.EnvHoldTime,
                             p.EnvDecayTime, p.EnvReleaseTime, p.EnvHoldTime = 0)
  IN  [ s EXCEPT !.m.m_TriggerAttack1 = FALSE,
                 !.m.m_TriggerRelease1 = FALSE,
                 !.m.env1 = r[1],
                 !.m.m_ENV1_Output = r[2] ]

\* ENV2 attack and peak-hold times (ms), fixed in the code
ENV2_ATTACK_MS == 10
ENV2_HOLD_MS == 20

TransientEnvelopeGen(s) ==
  LET p    == s.patch
      e1   == IF s.m.m_TriggerAttack2
                THEN [ s.m.env2 EXCEPT !.envPhaseTimer = 0,
                                       !.sustainLevel = CDiv(IntToFixedPt(p.Env2SustainLevel), 100),
                                       !.ampldMaximum = FIXED_MAX_LEVEL,
                                       !.ampldDelta = CDiv(FIXED_MAX_LEVEL, ENV2_ATTACK_MS),
                                       !.EnvSegment = ENV_ATTACK ]
                ELSE s.m.env2
      rel  == IF s.m.m_TriggerAttack2 THEN FALSE ELSE s.m.m_TriggerRelease2
      e2   == IF rel THEN [ e1 EXCEPT !.timeConstant = p.Env2DecayTime \div 5,
                                      !.envPhaseTimer = 0,
                                      !.EnvSegment = ENV_RELEASE ]
                     ELSE e1
      r    == EnvSegmentStep(e2, s.m.m_ENV2_Output, ENV2_ATTACK_MS, ENV2_HOLD_MS,
                             p.Env2DecayTime, p.Env2DecayTime, FALSE)
  IN  [ s EXCEPT !.m.m_TriggerAttack2 = FALSE,
                 !.m.m_TriggerRelease2 = FALSE,
                 !.m.env2 = r[1],
                 !.m.m_ENV2_Output = r[2] ]

ContourGenerator(s) ==
  LET p     == s.patch
      start == CDiv(IntToFixedPt(p.ContourStartLevel), 100)
      hold  == CDiv(IntToFixedPt(p.ContourHoldLevel), 100)
      c1    == IF s.m.m_TriggerContour
                 THEN [ s.m.contour EXCEPT !.startLevel = start,
                                           !.holdLevel = hold,
                                           !.outputDelta = CDiv(hold - start, p.ContourRampTime),
                                           !.segmentTimer = 0,
                                           !.contourSegment = CONTOUR_DELAY ]
                 ELSE s.m.contour
      out1  == IF s.m.m_TriggerContour THEN start ELSE s.m.m_ContourOutput
      c2    == IF s.m.m_TriggerReset
                 THEN [ c1 EXCEPT !.segmentTimer = 0, !.contourSegment = CONTOUR_IDLE ]
                 ELSE c1
      r     == CASE c2.contourSegment = CONTOUR_DELAY ->
                      IF c2.segmentTimer + 1 >= p.ContourDelayTime
                        THEN << [ c2 EXCEPT !.segmentTimer = 0,
                                            !.contourSegment = CONTOUR_RAMP ], out1 >>
                        ELSE << [ c2 EXCEPT !.segmentTimer = @ + 1 ], out1 >>
                 [] c2.contourSegment = CONTOUR_RAMP ->
                      IF c2.segmentTimer + 1 >= p.ContourRampTime
                        THEN << [ c2 EXCEPT !.segmentTimer = @ + 1,
                                            !.contourSegment = CONTOUR_HOLD ], out1 >>
                        ELSE << [ c2 EXCEPT !.segmentTimer = @ + 1 ], out1 + c2.outputDelta >>
                 [] c2.contourSegment = CONTOUR_HOLD -> << c2, c2.holdLevel >>
                 [] OTHER -> << c2, out1 >>
  IN  [ s EXCEPT !.m.m_TriggerContour = FALSE,
                 !.m.m_TriggerReset = FALSE,
                 !.m.contour = r[1],
                 !.m.m_ContourOutput = r[2] ]

LowFrequencyOscillator(s) ==
  LET waveIdx == Shr(s.m.m_LFO_PhaseAngle, 8)
      angle   == s.m.m_LFO_PhaseAngle + s.m.m_LFO_Step
  IN  [ s EXCEPT !.m.m_LFO_output = g_sine_wave[waveIdx + 1] * 32,
                 !.m.m_LFO_PhaseAngle = IF angle >= WAVE_TABLE_SIZE * 256
                                          THEN angle - WAVE_TABLE_SIZE * 256 ELSE angle ]

AudioLevelController(s) ==
  LET mode == s.cfg.AudioAmpldCtrlMode
      controlSource ==
        IF mode = AUDIO_CTRL_CONST THEN AMPLD_CTRL_CONST_MAX
        ELSE IF mode = AUDIO_CTRL_ENV1_VELO THEN AMPLD_CTRL_ENV1_VELO
        ELSE IF mode = AUDIO_CTRL_EXPRESS THEN AMPLD_CTRL_EXPRESS
        ELSE s.patch.AmpControlMode
      smooth0 == s.m.level.smoothExprnLevel
      smooth1 == (smooth0 - Shr(smooth0, 4)) + Shr(s.m.m_ExpressionLevel, 4)
      ampld0 ==
        IF controlSource = AMPLD_CTRL_CONST_LOW
          THEN (IF s.m.m_NoteOn THEN FIXED_MAX_LEVEL \div 2 ELSE 0)
        ELSE IF controlSource = AMPLD_CTRL_ENV1_VELO
          THEN MultiplyFixed(s.m.m_ENV1_Output, s.m.m_KeyVelocity)
        ELSE IF controlSource = AMPLD_CTRL_EXPRESS THEN smooth1
        ELSE FIXED_MAX_LEVEL
      ampld == IF ampld0 > FIXED_MAX_LEVEL THEN FIXED_MAX_LEVEL ELSE ampld0
      limit == IF s.patch.LimiterLevelPc # 0
                 THEN CDiv(IntToFixedPt(s.patch.LimiterLevelPc), 100)
                 ELSE MAX_CLIPPING_LEVEL
  IN  [ s EXCEPT !.m.level.outputAmpld = ampld,
                 !.m.level.smoothExprnLevel =
                     IF controlSource = AMPLD_CTRL_EXPRESS THEN smooth1 ELSE smooth0,
                 !.v.v_OutputLevel = FractionPart(ampld, 10),
                 !.v.v_LimiterLevelPos = limit,
                 !.v.v_LimiterLevelNeg = 0 - limit ]

\* the fast down-ramp taking 200 ms instead of 100 ms
VibratoRampGeneratorSlow(s) ==
  LET p     == s.patch
      r0    == s.m.ramp
      down  == r0.rampState # 3 /\ (~s.m.m_NoteOn \/ s.m.m_LegatoNoteChange)
      r1    == IF down THEN [ r0 EXCEPT !.rampStep = CDiv(IntToFixedPt(5), 200), !.rampState = 3 ]
                       ELSE r0
      out0  == s.m.m_RampOutput
      up    == IF out0 < FIXED_MAX_LEVEL THEN out0 + r1.rampStep ELSE out0
      dn    == IF out0 > 0 THEN out0 - r1.rampStep ELSE out0
      dn0   == IF dn < 0 THEN 0 ELSE dn
  IN
  IF p.LFO_RampTime = 0 THEN [ s EXCEPT !.m.m_RampOutput = FIXED_MAX_LEVEL ]
  ELSE
  CASE r1.rampState = 0 ->
         IF s.m.m_NoteOn
           THEN [ s EXCEPT !.m.m_RampOutput = 0,
                           !.m.ramp = [ r1 EXCEPT !.rampTimer_ms = 0, !.rampState = 1 ] ]
           ELSE [ s EXCEPT !.m.ramp = r1 ]
    [] r1.rampState = 1 ->
         IF r1.rampTimer_ms >= p.LFO_RampTime
           THEN [ s EXCEPT !.m.ramp = [ r1 EXCEPT !.rampStep = CDiv(IntToFixedPt(5), p.LFO_RampTime),
                                                  !.rampState = 2,
                                                  !.rampTimer_ms = @ + 5 ] ]
           ELSE [ s EXCEPT !.m.ramp = [ r1 EXCEPT !.rampTimer_ms = @ + 5 ] ]
    [] r1.rampState = 2 ->
         [ s EXCEPT !.m.ramp = r1,
                    !.m.m_RampOutput = IF up > FIXED_MAX_LEVEL THEN FIXED_MAX_LEVEL ELSE up ]
    [] r1.rampState = 3 ->
         IF dn0 < CDiv(IntToFixedPt(1), 100)
           THEN [ s EXCEPT !.m.m_RampOutput = dn0,
                           !.m.m_LegatoNoteChange = FALSE,
                           !.m.ramp = [ r1 EXCEPT !.rampTimer_ms = 0,
                                                  !.rampState = IF s.m.m_LegatoNoteChange
                                                                  THEN 1 ELSE 0 ] ]
           ELSE [ s EXCEPT !.m.m_RampOutput = dn0, !.m.ramp = r1 ]
    [] OTHER -> [ s EXCEPT !.m.ramp = [ r1 EXCEPT !.rampState = 0 ] ]

(***************************************************************************)
(* Control task, 5 ms steps                                                *)
(***************************************************************************)
VibratoRampGenerator(s) ==
  LET p     == s.patch
      r0    == s.m.ramp
      down  == r0.rampState # 3 /\ (~s.m.m_NoteOn \/ s.m.m_LegatoNoteChange)
      r1    == IF down THEN [ r0 EXCEPT !.rampStep = CDiv(IntToFixedPt(5), 100), !.rampState = 3 ]
                       ELSE r0
      out0  == s.m.m_RampOutput
      up    == IF out0 < FIXED_MAX_LEVEL THEN out0 + r1.rampStep ELSE out0
      dn    == IF out0 > 0 THEN out0 - r1.rampStep ELSE out0
      dn0   == IF dn < 0 THEN 0 ELSE dn
  IN
  IF p.LFO_RampTime = 0 THEN [ s EXCEPT !.m.m_RampOutput = FIXED_MAX_LEVEL ]
  ELSE
  CASE r1.rampState = 0 ->
         IF s.m.m_NoteOn
           THEN [ s EXCEPT !.m.m_RampOutput = 0,
                           !.m.ramp = [ r1 EXCEPT !.rampTimer_ms = 0, !.rampState = 1 ] ]
           ELSE [ s EXCEPT !.m.ramp = r1 ]
    [] r1.rampState = 1 ->
         IF r1.rampTimer_ms >= p.LFO_RampTime
           THEN [ s EXCEPT !.m.ramp = [ r1 EXCEPT !.rampStep = CDiv(IntToFixedPt(5), p.LFO_RampTime),
                                                  !.rampState = 2,
                                                  !.rampTimer_ms = @ + 5 ] ]
           ELSE [ s EXCEPT !.m.ramp = [ r1 EXCEPT !.rampTimer_ms = @ + 5 ] ]
    [] r1.rampState = 2 ->
         [ s EXCEPT !.m.ramp = r1,
                    !.m.m_RampOutput = IF up > FIXED_MAX_LEVEL THEN FIXED_MAX_LEVEL ELSE up ]
    [] r1.rampState = 3 ->
         IF dn0 < CDiv(IntToFixedPt(1), 100)
           THEN [ s EXCEPT !.m.m_RampOutput = dn0,
                           !.m.m_LegatoNoteChange = FALSE,
                           !.m.ramp = [ r1 EXCEPT !.rampTimer_ms = 0,
                                                  !.rampState = IF s.m.m_LegatoNoteChange
                                                                  THEN 1 ELSE 0 ] ]
           ELSE [ s EXCEPT !.m.m_RampOutput = dn0, !.m.ramp = r1 ]
    [] OTHER -> [ s EXCEPT !.m.ramp = [ r1 EXCEPT !.rampState = 0 ] ]

\* the table look-up without the special case for an argument of +1.0
Base2ExpNoTopCase(xval0) ==
  LET xval  == IF xval0 < IntToFixedPt(-1) \/ xval0 > IntToFixedPt(1) THEN 0 ELSE xval0
      ixval == FractionPart(CDiv(xval + IntToFixedPt(1), 2), 13)
      y0    == g_base2exp[(ixval \div 8) + 1]
  IN  (y0 + CDiv((g_base2exp[(ixval \div 8) + 2] - y0) * (ixval % 8), 8)) * 64

Base2Exp(xval0) ==
  LET xval  == IF xval0 < IntToFixedPt(-1) \/ xval0 > IntToFixedPt(1) THEN 0 ELSE xval0
      ixval == FractionPart(CDiv(xval + IntToFixedPt(1), 2), 13)
      idx   == ixval \div 8
      irem3 == ixval % 8
      y0    == g_base2exp[idx + 1]
      yval  == IF xval = IntToFixedPt(1) THEN 32768
               ELSE y0 + CDiv((g_base2exp[idx + 2] - y0) * irem3, 8)
  IN  yval * 64

\* vibrato and pitch bend added up instead of vibrato taking priority
OscFreqModulationBoth(s) ==
  LET p == s.patch
      c == s.cfg
      oscFreqLFO == CDiv(p.LFO_Freq_x10 * 256, 10)
      modnLevel ==
        IF c.VibratoCtrlMode = VIBRATO_BY_CV_AUXIN
          THEN CDiv(IntToFixedPt(1) * p.LFO_FM_Depth, 1200)
        ELSE IF c.VibratoCtrlMode = VIBRATO_AUTOMATIC
          THEN CDiv(s.m.m_RampOutput * p.LFO_FM_Depth, 1200)
        ELSE CDiv(s.m.m_ModulationLevel * c.PitchBendRange, 12)
      freqDevn ==
        IF c.VibratoCtrlMode # 0
          THEN Base2Exp(MultiplyFixed(s.m.m_LFO_output, modnLevel) + s.m.m_PitchBendFactor)
        ELSE IF c.PitchBendMode # 0 THEN Base2Exp(s.m.m_PitchBendFactor)
        ELSE IntToFixedPt(1)
      detuneNorm(osc) ==
        Base2Exp(CDiv(IntToFixedPt(1) * (p.OscDetune[osc] + c.FineTuning_cents), 1200))
      stepDetune == [ osc \in Osc |-> MultiplyFixed(s.m.m_OscStepInit[osc], detuneNorm(osc)) ]
  IN  [ s EXCEPT !.m.m_LFO_Step = CDiv(oscFreqLFO * WAVE_TABLE_SIZE, 1000),
                 !.m.m_OscStepDetune = stepDetune,
                 !.v.v_OscStep = [ osc \in Osc |-> MultiplyFixed(stepDetune[osc], freqDevn) ] ]

OscFreqModulation(s) ==
  LET p == s.patch
      c == s.cfg
      oscFreqLFO == CDiv(p.LFO_Freq_x10 * 256, 10)
      modnLevel ==
        IF c.VibratoCtrlMode = VIBRATO_BY_CV_AUXIN
          THEN CDiv(IntToFixedPt(1) * p.LFO_FM_Depth, 1200)
        ELSE IF c.VibratoCtrlMode = VIBRATO_AUTOMATIC
          THEN CDiv(s.m.m_RampOutput * p.LFO_FM_Depth, 1200)
        ELSE CDiv(s.m.m_ModulationLevel * c.PitchBendRange, 12)
      freqDevn ==
        IF c.VibratoCtrlMode # 0
          THEN Base2Exp(MultiplyFixed(s.m.m_LFO_output, modnLevel))
        ELSE IF c.PitchBendMode # 0 THEN Base2Exp(s.m.m_PitchBendFactor)
        ELSE IntToFixedPt(1)
      detuneNorm(osc) ==
        Base2Exp(CDiv(IntToFixedPt(1) * (p.OscDetune[osc] + c.FineTuning_cents), 1200))
      stepDetune == [ osc \in Osc |-> MultiplyFixed(s.m.m_OscStepInit[osc], detuneNorm(osc)) ]
  IN  [ s EXCEPT !.m.m_LFO_Step = CDiv(oscFreqLFO * WAVE_TABLE_SIZE, 1000),
                 !.m.m_OscStepDetune = stepDetune,
                 !.v.v_OscStep = [ osc \in Osc |-> MultiplyFixed(stepDetune[osc], freqDevn) ] ]

\* the value stored in a uint16_t
U16(x) == x % 65536

OscAmpldModulation(s) ==
  LET p == s.patch
      LFO_scaled  == CDiv(s.m.m_LFO_output * p.LFO_AM_Depth, 200)
      LFO_AM_bias == IntToFixedPt(1) - CDiv(IntToFixedPt(p.LFO_AM_Depth), 200)
      modn(osc) ==
        LET src == p.OscAmpldModSource[osc]
        IN  CASE src = OSC_MODN_SOURCE_CONT_POS -> Shr(s.m.m_ContourOutput, 10)
              [] src = OSC_MODN_SOURCE_CONT_NEG -> 1024 - Shr(s.m.m_ContourOutput, 10)
              [] src = OSC_MODN_SOURCE_ENV2     -> Shr(s.m.m_ENV2_Output, 10)
              [] src = OSC_MODN_SOURCE_MODN     -> Shr(s.m.m_ModulationLevel, 10)
              [] src = OSC_MODN_SOURCE_EXPR_POS -> Shr(s.m.m_ExpressionLevel, 10)
              [] src = OSC_MODN_SOURCE_EXPR_NEG -> 1024 - Shr(s.m.m_ExpressionLevel, 10)
              [] src = OSC_MODN_SOURCE_LFO      -> Shr(LFO_scaled + LFO_AM_bias, 10)
              [] src = OSC_MODN_SOURCE_VELO_POS -> Shr(s.m.m_KeyVelocity, 10)
              [] src = OSC_MODN_SOURCE_VELO_NEG -> 1024 - Shr(s.m.m_KeyVelocity, 10)
              [] OTHER -> 1000
  IN  [ s EXCEPT !.v.v_OscAmpldModn =
                     [ osc \in Osc |-> IF U16(modn(osc)) > 1000 THEN 1000 ELSE U16(modn(osc)) ],
                 !.v.v_MixerLevel =
                     [ osc \in Osc |-> IF s.m.m_OscMuted[osc] THEN 0
                                       ELSE g_AmpldLevelLogScale_x1000[p.MixerInputStep[osc] + 1] ],
                 !.v.v_MixerOutGain = U16(CDiv(p.MixerOutGain_x10 * 128, 10)) ]

\* the 1 ms part and the 5 ms part of SynthProcess
SynthProcess1ms(s) ==
  AudioLevelController(LowFrequencyOscillator(ContourGenerator(
      TransientEnvelopeGen(AmpldEnvelopeGenerator(s)))))

SynthProcess5ms(s) ==
  OscAmpldModulation(OscFreqModulation(VibratoRampGenerator(s)))

\* the counter left running: the 5 ms routines run on every call from the
\* fifth on
Every5msNoReset(s) ==
  IF s.m.count5ms + 1 >= 5
    THEN SynthProcess5ms([ s EXCEPT !.m.count5ms = @ + 1 ])
    ELSE [ s EXCEPT !.m.count5ms = @ + 1 ]

\* if (++count5ms >= 5) { count5ms = 0; ... the 5 ms routines ... }
Every5ms(s) ==
  IF s.m.count5ms + 1 >= 5
    THEN SynthProcess5ms([ s EXCEPT !.m.count5ms = 0 ])
    ELSE [ s EXCEPT !.m.count5ms = @ + 1 ]

SynthProcess(s) == Every5ms(SynthProcess1ms(s))

(***************************************************************************)
(* Audio ISR  (TC3_Handler)                                                *)
(***************************************************************************)
\* Values a read past the end of g_sine_wave[] can return (an int16_t the
\* program does not control)
OobSamples == { -32768, 0, 32767 }

\* spiDACdata | 0x3000 : bits 12 and 13 forced to one
Or3000(w) == (w - ((w \div 4096) % 4) * 4096) + 12288

\* the wave-table sample of one oscillator: g_sine_wave[v_OscAngle[osc] >> 16],
\* or what lies beyond the table when the index is outside it
IsrSample(s, osc, oob) ==
  LET idx == Shr(s.v.v_OscAngle[osc], 16)
  IN  IF idx \in 0 .. (WAVE_TABLE_SIZE - 1) THEN g_sine_wave[idx + 1] ELSE oob

\* the oscillator's sample fed to the mixer without the input level applied
IsrMixedUnscaled(s, osc, oob) ==
  Shr(Mul32(IsrSample(s, osc, oob) * 32, s.v.v_OscAmpldModn[osc]), 10)

\* one oscillator's contribution to the mixer
IsrMixed(s, osc, oob) ==
  Shr(Mul32(Shr(Mul32(IsrSample(s, osc, oob) * 32, s.v.v_OscAmpldModn[osc]), 10),
            s.v.v_MixerLevel[osc]), 10)

\* mixerOut += ... for osc = 0 .. 5
IsrMixerSum(s, oob) ==
  Add32(Add32(Add32(Add32(Add32(IsrMixed(s, 1, oob), IsrMixed(s, 2, oob)),
                          IsrMixed(s, 3, oob)), IsrMixed(s, 4, oob)),
              IsrMixed(s, 5, oob)), IsrMixed(s, 6, oob))

\* the limiter left out: the mixer output passes unchanged
IsrUnlimited(s, x) == IF s.v.v_LimiterLevelPos = s.v.v_LimiterLevelPos THEN x ELSE 0

\* if (mixerOut > v_LimiterLevelPos) ... ; if (mixerOut < v_LimiterLevelNeg) ...
IsrLimited(s, x) ==
  IF x > s.v.v_LimiterLevelPos
    THEN (IF s.v.v_LimiterLevelPos < s.v.v_LimiterLevelNeg
            THEN s.v.v_LimiterLevelNeg ELSE s.v.v_LimiterLevelPos)
    ELSE (IF x < s.v.v_LimiterLevelNeg THEN s.v.v_LimiterLevelNeg ELSE x)

\* the mixer output after the gain and the limiter
IsrMixerOut(s, oob) == IsrLimited(s, Shr(Mul32(IsrMixerSum(s, oob), s.v.v_MixerOutGain), 7))

\* the output attenuator taking the amplitude envelope's output itself
\* instead of the level published in v_OutputLevel
IsrAttenOutFromEnvelope(s, oob) ==
  Shr(Mul32(IsrMixerOut(s, oob), Shr(s.m.m_ENV1_Output, 10)), 10)

\* attenOut = (mixerOut * v_OutputLevel) >> 10
IsrAttenOut(s, oob) == Shr(Mul32(IsrMixerOut(s, oob), s.v.v_OutputLevel), 10)

\* reverbOut = MultiplyFixed(ReverbDelayLine[rvbIndex], m_RvbDecay)
IsrReverbOut(s) ==
  MultiplyFixed(DelayRead(s.isr.ReverbDelayLine, s.isr.rvbIndex), s.m.m_RvbDecay)

\* finalOutput with the delay line's output added at a fixed half, whatever
\* the mix ratio
IsrFinalOutputFixedWet(s, atten, rvb) ==
  IF s.v.v_SynthEnable = 0 THEN 0 ELSE Add32(atten, Shr(rvb, 1))

\* finalOutput, from the attenuated sample and the delay line's output
IsrFinalOutput(s, atten, rvb) ==
  IF s.v.v_SynthEnable = 0 THEN 0
  ELSE IF s.m.m_RvbMix # 0
    THEN Add32(Shr(Mul32(atten, 128 - s.m.m_RvbMix), 7), Shr(Mul32(rvb, s.m.m_RvbMix), 7))
    ELSE atten

\* spiDACdata = (uint16_t)(2048 + (int)(finalOutput >> 9)), sent as spiDACdata | 0x3000
IsrDacWord(x) == Or3000(U16(2048 + Shr(x, 9)))

TC3_Handler(s, oob) ==
  LET size == WAVE_TABLE_SIZE * 65536
      angle(osc) ==
        LET a == Add32(s.v.v_OscAngle[osc], s.v.v_OscStep[osc])
        IN  IF a >= size THEN a - size ELSE a
      i == s.isr.rvbIndex
      run(atten, rvb) ==
        IF s.m.m_RvbMix # 0
          THEN [ s EXCEPT
                   !.v.v_OscAngle = [ osc \in Osc |-> angle(osc) ],
                   !.isr.reverbPrev = rvb,
                   !.isr.ReverbDelayLine =
                       DelayWrite(@, i, Add32(Shr(Mul32(atten, s.m.m_RvbAtten), 7),
                                              Shr(Add32(rvb, s.isr.reverbPrev), 1))),
                   !.isr.rvbIndex = IF i + 1 >= s.m.m_RvbDelayLen THEN 0 ELSE i + 1,
                   !.isr.spiDACdata = IsrDacWord(IsrFinalOutput(s, atten, rvb)) ]
          ELSE [ s EXCEPT
                   !.v.v_OscAngle = [ osc \in Osc |-> angle(osc) ],
                   !.isr.spiDACdata = IsrDacWord(IsrFinalOutput(s, atten, rvb)) ]
  IN
  IF s.v.v_SynthEnable = 0 THEN [ s EXCEPT !.isr.spiDACdata = IsrDacWord(0) ]
  ELSE run(IsrAttenOut(s, oob), IsrReverbOut(s))

(***************************************************************************)
(* State after setup()                                                     *)
(***************************************************************************)
DefaultConfigData ==
  [ AudioAmpldCtrlMode |-> AUDIO_CTRL_ENV1_VELO,
    VibratoCtrlMode    |-> VIBRATO_DISABLED,
    PitchBendMode      |-> PITCH_BEND_BY_MIDI_MSG,
    PitchBendRange     |-> 2,
    ReverbMix_pc       |-> 15,
    PresetLastSelected |-> 1,
    FineTuning_cents   |-> 0 ]

\* zero-initialised statics of one envelope generator
EnvZero ==
  [ EnvSegment |-> ENV_IDLE, envPhaseTimer |-> 0, sustainLevel |-> 0,
    timeConstant |-> 0, ampldDelta |-> 0, ampldMaximum |-> 0 ]

\* zero-initialised g_Patch
PatchZero ==
  [ OscFreqMult |-> Six(0), OscAmpldModSource |-> Six(0), OscDetune |-> Six(0),
    MixerInputStep |-> Six(0),
    EnvAttackTime |-> 0, EnvHoldTime |-> 0, EnvDecayTime |-> 0, EnvSustainLevel |-> 0,
    EnvReleaseTime |-> 0, AmpControlMode |-> 0,
    ContourStartLevel |-> 0, ContourDelayTime |-> 0, ContourRampTime |-> 0,
    ContourHoldLevel |-> 0, Env2DecayTime |-> 0, Env2SustainLevel |-> 0,
    LFO_Freq_x10 |-> 0, LFO_RampTime |-> 0, LFO_FM_Depth |-> 0, LFO_AM_Depth |-> 0,
    MixerOutGain_x10 |-> 0, LimiterLevelPc |-> 0 ]

\* the preset loaded by setup()
STARTUP_PRESET == 13

HistZero ==
  [ nRx |-> 0, nTick |-> 0, nIsr |-> 0,
    rxByte |-> -1, event |-> NoEvent, overrun |-> FALSE, changed |-> FALSE, nRejected |-> 0,
    rejected |-> 0, tail |-> 0,
    status |-> 0, ndata |-> 0, prev |-> << 0, 0 >>, pure |-> TRUE, nEvents |-> 0,
    relSince |-> FALSE, relDue |-> FALSE, gate |-> "none", gateTicks |-> 0, gateLimit |-> 0,
    isrPrev |-> Six(0), isrStep |-> Six(0),
    arg |-> 0, result |-> 0, applied |-> FALSE,
    downBy |-> "none", downFrom |-> 0, downTicks |-> 0, fresh |-> FALSE,
    lastNote |-> -1, earlier |-> -1, regis |-> -1 ]

Zeroed(channelSwitches) ==
  [ rx |-> [ midiMessage |-> [ i \in 0 .. (MIDI_MSG_MAX_LENGTH - 1) |-> 0 ],
             msgBytesExpected |-> 0, msgByteCount |-> 0, msgIndex |-> 0,
             msgStatus |-> 0, msgComplete |-> FALSE,
             modulationHi |-> 0, expressionHi |-> 0,
             g_MidiRegisParam |-> 0,
             g_MidiChannel |-> channelSwitches,
             g_MidiMode |-> IF channelSwitches = 0 THEN OMNI_ON_MONO ELSE OMNI_OFF_MONO ],
    cfg |-> DefaultConfigData,
    patch |-> PatchZero,
    m |-> [ m_OscStepInit |-> Six(0), m_OscStepDetune |-> Six(0), m_OscMuted |-> Six(FALSE),
            m_LFO_PhaseAngle |-> 0, m_LFO_Step |-> 0, m_LFO_output |-> 0, m_RampOutput |-> 0,
            m_ExpressionLevel |-> 0, m_ModulationLevel |-> 0, m_PitchBendFactor |-> 0,
            m_ENV1_Output |-> 0, m_ENV2_Output |-> 0, m_ContourOutput |-> 0,
            m_KeyVelocity |-> 0,
            m_TriggerAttack1 |-> FALSE, m_TriggerRelease1 |-> FALSE,
            m_TriggerAttack2 |-> FALSE, m_TriggerRelease2 |-> FALSE,
            m_TriggerContour |-> FALSE, m_TriggerReset |-> FALSE,
            m_LegatoNoteChange |-> FALSE, m_NoteOn |-> FALSE, m_NotePlaying |-> 0,
            m_RvbDelayLen |-> 0, m_RvbDecay |-> 0, m_RvbAtten |-> 0, m_RvbMix |-> 0,
            count5ms |-> 0,
            env1 |-> EnvZero, env2 |-> EnvZero,
            contour |-> [ contourSegment |-> CONTOUR_IDLE, segmentTimer |-> 0,
                          outputDelta |-> 0, startLevel |-> 0, holdLevel |-> 0 ],
            ramp |-> [ rampState |-> 0, rampTimer_ms |-> 0, rampStep |-> 0 ],
            level |-> [ outputAmpld |-> 0, smoothExprnLevel |-> 0 ] ],
    v |-> [ v_SynthEnable |-> 0, v_OscAngle |-> Six(0), v_OscStep |-> Six(0),
            v_OscAmpldModn |-> Six(0), v_MixerLevel |-> Six(0), v_MixerOutGain |-> 0,
            v_LimiterLevelPos |-> 0, v_LimiterLevelNeg |-> 0, v_OutputLevel |-> 0 ],
    isr |-> [ rvbIndex |-> 0, reverbPrev |-> 0, ReverbDelayLine |-> << >>, spiDACdata |-> 0 ],
    hist |-> HistZero ]

\* setup(): channel switches read, DefaultConfigData(), PresetSelect(13)
Setup(channelSwitches) == PresetSelect(Zeroed(channelSwitches), STARTUP_PRESET)

(***************************************************************************)
(* Actions                                                                 *)
(***************************************************************************)
Apply(s) ==
  /\ rx' = s.rx
  /\ g_Config' = s.cfg
  /\ g_Patch' = s.patch
  /\ m' = s.m
  /\ v' = s.v
  /\ isr' = s.isr
  /\ hist' = s.hist

\* what a MIDI message can change outside the parser's own statics
SynthPart(s) ==
  << s.cfg, s.patch, s.m, s.v, s.rx.g_MidiRegisParam, s.rx.modulationHi, s.rx.expressionHi >>

\* history kept about the byte stream: the last status byte, the data bytes
\* since it, what the service did with the byte just received, and the data
\* byte of the last registered-parameter controller (CC 100) dispatched
RxHistory(s0, s1, msgByte) ==
  LET isStatus == msgByte >= 128 /\ msgByte <= SYS_EXCLUSIVE_MSG
      isData   == msgByte < 128
  IN  [ s1.hist EXCEPT
          !.nRx     = @ + 1,
          !.rxByte  = msgByte,
          !.changed = SynthPart(s1) # SynthPart(s0),
          !.status  = IF isStatus THEN msgByte ELSE @,
          !.ndata   = IF isStatus THEN 0 ELSE IF isData THEN @ + 1 ELSE @,
          !.prev    = IF isStatus THEN << 0, 0 >> ELSE IF isData THEN << @[2], msgByte >> ELSE @,
          !.pure    = IF isStatus THEN TRUE ELSE IF isData THEN @ ELSE FALSE,
          !.tail    = IF s1.hist.nRejected > s0.hist.nRejected THEN 0
                      ELSE IF isData THEN @ + 1 ELSE @,
          !.nEvents = (IF isStatus THEN 0 ELSE @) + (IF s1.hist.event # NoEvent THEN 1 ELSE 0),
          !.regis   = IF /\ s1.hist.event # NoEvent
                         /\ (s1.hist.event[1] \div 16) * 16 = CONTROL_CHANGE_CMD
                         /\ s1.hist.event[2] = 100
                        THEN s1.hist.event[3] ELSE @ ]

\* loop(): MidiInputService() with one byte available, taken from `bytes`;
\* at most maxRx bytes arrive, between control ticks `from` and `until`
Receive(bytes, maxRx, from, until) ==
  /\ pc = "loop"
  /\ hist.nRx < maxRx
  /\ hist.nTick >= from
  /\ hist.nTick <= until
  /\ \E msgByte \in bytes, clobber \in Clobber :
       /\ clobber # "none" =>
            (msgByte = SYSTEM_MSG_EOX /\ rx.msgIndex >= MIDI_MSG_MAX_LENGTH)
       /\ \E s1 \in { MidiInputService(Cur, msgByte, clobber) } :
            Apply([ s1 EXCEPT !.hist = RxHistory(Cur, s1, msgByte) ])
  /\ UNCHANGED pc

\* a burst: the bytes of one message (status and data bytes only) taken by
\* successive calls of MidiInputService with no control tick in between
RECURSIVE Feed(_, _)
Feed(s, bytes) ==
  IF bytes = << >> THEN s
  ELSE LET s1 == MidiInputService(s, Head(bytes), "none")
       IN  Feed([ s1 EXCEPT !.hist = RxHistory(s, s1, Head(bytes)) ], Tail(bytes))

ReceiveMessage(msgs, maxRx) ==
  /\ pc = "loop"
  /\ \E msg \in msgs :
       /\ hist.nRx + Len(msg) <= maxRx
       /\ Apply(Feed(Cur, msg))
  /\ UNCHANGED pc

\* history kept at the start of a control tick, after ENV1 has run
TickHistory(s0, s) ==
  LET idle == s.m.env1.EnvSegment = ENV_IDLE
  IN  [ s.hist EXCEPT
          !.nTick     = @ + 1,
          !.relDue    = s0.hist.relSince /\ s0.m.m_TriggerRelease1,
          !.relSince  = FALSE,
          !.gate      = IF @ = "on" THEN "none"
                        ELSE IF @ = "off" /\ idle THEN "done" ELSE @,
          !.gateTicks = IF s.hist.gate = "off" THEN @ + 1 ELSE @ ]

\* loop(): the 1 ms control task, run to completion
ControlTask ==
  /\ pc = "loop"
  /\ \E s1 \in { SynthProcess(Cur) } :
       Apply([ s1 EXCEPT !.hist = TickHistory(Cur, s1) ])
  /\ UNCHANGED pc

\* one function call of SynthProcess, so that the audio ISR can interleave
Step(here, next, s1) ==
  /\ pc = here
  /\ Apply(s1)
  /\ pc' = next

StepENV1(maxTicks) ==
  /\ hist.nTick < maxTicks
  /\ \E s1 \in { AmpldEnvelopeGenerator(Cur) } :
       Step("loop", "ENV2", [ s1 EXCEPT !.hist = TickHistory(Cur, s1) ])

StepENV2 == Step("ENV2", "Contour", TransientEnvelopeGen(Cur))

StepContour == Step("Contour", "LFO", ContourGenerator(Cur))

StepLFO == Step("LFO", "Level", LowFrequencyOscillator(Cur))

StepLevel == Step("Level", "Count", AudioLevelController(Cur))

\* if (++count5ms >= 5) { count5ms = 0; ... }
StepCount ==
  /\ pc = "Count"
  /\ IF m.count5ms + 1 >= 5
       THEN m' = [ m EXCEPT !.count5ms = 0 ] /\ pc' = "Vibrato"
       ELSE m' = [ m EXCEPT !.count5ms = @ + 1 ] /\ pc' = "loop"
  /\ UNCHANGED << rx, g_Config, g_Patch, v, isr, hist >>

StepVibrato == Step("Vibrato", "OscFM", VibratoRampGenerator(Cur))

StepOscFM == Step("OscFM", "OscAM", OscFreqModulation(Cur))

StepOscAM == Step("OscAM", "loop", OscAmpldModulation(Cur))

\* some oscillator's phase angle points outside the wave table
AngleOutside == \E osc \in Osc : Shr(v.v_OscAngle[osc], 16) \notin 0 .. (WAVE_TABLE_SIZE - 1)

\* the audio interrupt, at any point of the main loop
Isr(maxIsr) ==
  /\ hist.nIsr < maxIsr
  /\ \E oob \in OobSamples :
       /\ oob # 0 => AngleOutside
       /\ \E s1 \in { TC3_Handler(Cur, oob) } :
            Apply([ s1 EXCEPT !.hist.nIsr = @ + 1,
                              !.hist.isrPrev = v.v_OscAngle,
                              !.hist.isrStep = v.v_OscStep ])
  /\ UNCHANGED pc

InitWith(switches) ==
  /\ pc = "loop"
  /\ \E channelSwitches \in switches :
       LET s == Setup(channelSwitches)
       IN  /\ rx = s.rx
           /\ g_Config = s.cfg
           /\ g_Patch = s.patch
           /\ m = s.m
           /\ v = s.v
           /\ isr = s.isr
           /\ hist = s.hist

(***************************************************************************)
(* The whole program: bytes arrive, the control task runs step by step,    *)
(* the audio interrupt fires in between                                    *)
(***************************************************************************)
MaxRx == 1
MaxTicks == 5
MaxIsr == 1

Init == InitWith(0 .. 15)

Next ==
  \/ Receive(0 .. 255, MaxRx, 0, MaxTicks)
  \/ StepENV1(MaxTicks)
  \/ StepENV2
  \/ StepContour
  \/ StepLFO
  \/ StepLevel
  \/ StepCount
  \/ StepVibrato
  \/ StepOscFM
  \/ StepOscAM
  \/ Isr(MaxIsr)

Spec == Init /\ [][Next]_vars

(***************************************************************************)
(* MIDI input alone: framing, running status, channel filter               *)
(***************************************************************************)
\* channel switch settings: omni, and channel 1
MidiSwitches == { 0, 1 }

\* Note-On on channels 1, 2 and 16, Program Change on channel 1, EOX, a real-time
\* byte, two data bytes
MidiBytes == { 144, 145, 159, 192, 247, 248, 60, 0 }

MidiMaxRx == 7

InitMidi == InitWith(MidiSwitches)

NextMidi == Receive(MidiBytes, MidiMaxRx, 0, 0)

SpecMidi == InitMidi /\ [][NextMidi]_vars

\* a channel-voice status byte
ChannelVoice(st) == st >= 128 /\ st < SYS_EXCLUSIVE_MSG

\* the message's channel is the configured one, or 16, or the module is in omni mode
StatusAccepted(st) ==
  \/ (st % 16) + 1 = rx.g_MidiChannel
  \/ (st % 16) + 1 = 16
  \/ rx.g_MidiMode = OMNI_ON_MONO

\* bytes in a message with this status: 2 for Cn and Dn, 3 for 8n, 9n, Bn and En
FrameLength(st) ==
  IF st \div 16 \in { 12, 13 } THEN 2
  ELSE IF st \div 16 \in { 8, 9, 11, 14 } THEN 3 ELSE 0

\* C1: after a Note-On status byte on an accepted channel, followed by data
\* bytes only, every completed pair of data bytes has produced one note event:
\* k pairs give exactly k events, each event carries the pair just completed,
\* and a Note-On with non-zero velocity leaves the (folded) note playing.
C1_RunningStatus ==
  (hist.status \div 16 = 9 /\ StatusAccepted(hist.status) /\ hist.pure) =>
     /\ hist.nEvents = hist.ndata \div 2
     /\ (hist.ndata > 0 /\ hist.ndata % 2 = 0) =>
           /\ hist.event = << hist.status, hist.prev[1], hist.prev[2], 3 >>
           /\ hist.prev[2] # 0 =>
                (m.m_NoteOn /\ m.m_NotePlaying = FoldNote(hist.prev[1]))
     /\ (hist.ndata % 2 = 1 \/ hist.ndata = 0) => hist.event = NoEvent

\* three pairs under one status byte have produced three events
C1_Witness ==
  /\ hist.status = 144
  /\ hist.pure
  /\ hist.ndata = 6
  /\ hist.nEvents = 3
  /\ hist.event = << 144, 60, 60, 3 >>
  /\ m.m_NoteOn

\* the byte just received completes a frame of the last status byte: it is a
\* data byte and the data bytes since the status byte fill whole frames
FrameDue ==
  /\ hist.rxByte >= 0
  /\ hist.rxByte < 128
  /\ hist.ndata > 0
  /\ hist.ndata % (FrameLength(hist.status) - 1) = 0

\* C2: a channel-voice frame on an accepted channel is dispatched exactly when
\* the expected number of data bytes has been received, it carries 7-bit data
\* bytes only, and an EOX byte outside a system-exclusive message neither
\* dispatches nor alters anything.
C2_FrameExactly ==
  (ChannelVoice(hist.status) /\ StatusAccepted(hist.status) /\ FrameLength(hist.status) > 0) =>
     /\ (hist.event # NoEvent) <=> FrameDue
     /\ hist.event # NoEvent =>
          \A i \in 2 .. hist.event[4] : i <= 3 => hist.event[i] < 128
     /\ hist.rxByte = SYSTEM_MSG_EOX => (hist.event = NoEvent /\ ~hist.changed)

\* C10: a Program Change whose program number is not below the number of
\* presets (32) changes nothing outside the parser: patch, configuration
\* (PresetLastSelected included), note-on flag, triggers, generator states.
C10_ProgramOutOfCatalog ==
  (/\ hist.event # NoEvent
   /\ hist.event[1] \div 16 = 12
   /\ hist.event[2] >= 32) => ~hist.changed

\* Program Change 60 has been dispatched while note 60 sounds, its attack pending
C10_Witness ==
  /\ GetNumberOfPresets = 32
  /\ hist.event # NoEvent
  /\ hist.event[1] = 192
  /\ hist.event[2] = 60
  /\ m.m_NoteOn
  /\ m.m_NotePlaying = 60
  /\ m.m_TriggerAttack1
  /\ g_Config.PresetLastSelected = STARTUP_PRESET

\* C9: while the last status byte addresses a channel that is neither the
\* configured one nor 16, and the module is not in omni mode, no byte is
\* dispatched and nothing outside the parser changes; a frame on an accepted
\* channel is dispatched when its last data byte arrives, whatever was
\* rejected before.
C9_ChannelFilter ==
  ChannelVoice(hist.status) =>
     /\ ~StatusAccepted(hist.status) => (hist.event = NoEvent /\ ~hist.changed)
     /\ (/\ StatusAccepted(hist.status)
         /\ hist.pure
         /\ FrameLength(hist.status) > 0
         /\ hist.ndata = FrameLength(hist.status) - 1) =>
           /\ hist.event # NoEvent
           /\ hist.event[1] = hist.status
           /\ hist.event[4] = FrameLength(hist.status)
           /\ hist.event[hist.event[4]] = hist.prev[2]

\* a frame was rejected, more data bytes followed it, and a later frame on the
\* configured channel has been dispatched
C9_Witness ==
  /\ hist.rejected = 145
  /\ hist.tail = 3
  /\ rx.g_MidiMode = OMNI_OFF_MONO
  /\ hist.status = 144
  /\ hist.event = << 144, 60, 60, 3 >>

(***************************************************************************)
(* MIDI input alone, long byte sequences: the message buffer               *)
(***************************************************************************)
\* Note-On on channel 2 (not the configured channel 1), EOX, one data byte
OverrunBytes == { 145, 247, 60 }

OverrunMaxRx == 17

InitOverrun == InitWith({ 1 })

NextOverrun == Receive(OverrunBytes, OverrunMaxRx, 0, 0)

SpecOverrun == InitOverrun /\ [][NextOverrun]_vars

\* C6: the parser never writes midiMessage[] at an index >= MIDI_MSG_MAX_LENGTH
\* and its write index stays within 0 .. 16, whatever bytes arrive.
C6_BufferBounded ==
  /\ ~hist.overrun
  /\ rx.msgIndex >= 0
  /\ rx.msgIndex <= MIDI_MSG_MAX_LENGTH

(***************************************************************************)
(* Controller and program changes, one whole message at a time             *)
(***************************************************************************)
\* the parameter controllers, and the registered-parameter selector
CCNumbers == { 38 } \cup (70 .. 80) \cup (86 .. 89) \cup { 100 }

\* data bytes around the limits the controllers test
CCData == { 0, 1, 4, 12, 13, 50, 51, 96, 100, 101, 120, 127 }

CCPrograms == { 0, 20, 31, 32 }

CCMessages ==
  { << CONTROL_CHANGE_CMD, cc, d >> : cc \in CCNumbers, d \in CCData }
    \cup { << PROGRAM_CHANGE_CMD, p >> : p \in CCPrograms }

CCMaxRx == 6

InitCC == InitWith({ 1 })

NextCC == ReceiveMessage(CCMessages, CCMaxRx)

SpecCC == InitCC /\ [][NextCC]_vars

\* the ranges documented for the fields of g_Patch and g_Config
PatchInRange(p) ==
  /\ p.MixerOutGain_x10 >= 0 /\ p.MixerOutGain_x10 <= 100
  /\ p.LFO_Freq_x10 >= 5 /\ p.LFO_Freq_x10 <= 250
  /\ \A osc \in Osc : p.MixerInputStep[osc] >= 0 /\ p.MixerInputStep[osc] <= 16
  /\ p.EnvSustainLevel <= 100
  /\ p.Env2SustainLevel <= 100
  /\ p.ContourStartLevel <= 100
  /\ p.ContourHoldLevel <= 100
  /\ p.EnvAttackTime >= 5
  /\ p.EnvDecayTime >= 5
  /\ p.EnvReleaseTime >= 5
  /\ p.ContourRampTime >= 5
  /\ p.Env2DecayTime >= 5
  /\ p.LFO_FM_Depth <= 600
  /\ p.AmpControlMode <= 3

ConfigInRange(c) ==
  /\ c.PitchBendRange >= 1 /\ c.PitchBendRange <= 12
  /\ c.FineTuning_cents >= -100 /\ c.FineTuning_cents <= 100
  /\ c.ReverbMix_pc <= 100
  /\ c.AudioAmpldCtrlMode <= 3
  /\ c.VibratoCtrlMode <= 3
  /\ c.PitchBendMode <= 2

\* C7: after any sequence of controller-change and program-change messages
\* every patch and configuration field lies within its documented range.
C7_FieldsInRange == PatchInRange(g_Patch) /\ ConfigInRange(g_Config)

\* the data bytes a parameter controller is documented to refuse
OutOfRange(cc, d) ==
  CASE cc = 38 -> rx.g_MidiRegisParam = 0 /\ d > 12
    [] cc = 70 -> d = 0
    [] cc = 71 -> d > 95
    [] cc \in { 72, 73, 75 } -> d = 0 \/ d > 100
    [] cc \in { 74, 76, 78, 89 } -> d > 100
    [] cc = 77 -> d = 0 \/ d > 50
    [] cc = 79 -> d > 120
    [] cc = 80 -> d \div 16 \notin 0 .. 5
    [] cc \in 86 .. 88 -> d >= 4
    [] OTHER -> FALSE

\* C8: a parameter controller (CC 38, 70..80, 86..89) whose data byte is
\* outside its validity range changes no patch or configuration field; for
\* CC 80 that includes an oscillator digit outside 0..5.
C8_OutOfRangeIgnored ==
  (/\ hist.event # NoEvent
   /\ hist.event[1] \div 16 = 11
   /\ OutOfRange(hist.event[2], hist.event[3])) => ~hist.changed

(***************************************************************************)
(* Notes and the amplitude envelope: bytes and whole control ticks         *)
(***************************************************************************)
\* Note-On on channel 1, note 60 (also a velocity), velocity 0
EnvBytes == { 144, 60, 0 }

EnvMaxRx == 5

\* ticks ENV1 needs after setup() to finish the release SynthPrepare triggers
EnvWarmUp == 2 * g_PresetPatch[STARTUP_PRESET + 1].EnvReleaseTime

\* ticks after the warm-up during which bytes still arrive
EnvHorizon == 3

InitEnv == InitWith({ 1 })

ReceiveEnv == Receive(EnvBytes, EnvMaxRx, EnvWarmUp, EnvWarmUp + EnvHorizon)

\* time runs on past the horizon only while a note struck from rest and
\* released at once has not yet had its full envelope cycle
TickEnv ==
  /\ \/ hist.nTick < EnvWarmUp + EnvHorizon
     \/ hist.gate = "off" /\ hist.gateTicks < hist.gateLimit
  /\ ControlTask

NextEnv == ReceiveEnv \/ TickEnv

SpecEnv == InitEnv /\ [][NextEnv]_vars

\* C3: when the release trigger was set and no Note-On was processed after
\* it, the control tick that follows leaves ENV1 in RELEASE with its timer
\* restarted (one tick counted), whatever else was pending at that tick.
C3_ReleaseHonoured ==
  hist.relDue => (m.env1.EnvSegment = ENV_RELEASE /\ m.env1.envPhaseTimer = 1)

\* C4: a Note-On with ENV1 at rest, followed by the matching Note-Off before
\* any control tick, has brought ENV1 back to IDLE by the time
\* Attack + Hold + 2 x Decay + 2 x Release ticks have passed.
C4_GateCycle ==
  hist.gate = "off" => hist.gateTicks < hist.gateLimit

(***************************************************************************)
(* Oscillators: a note, the control task step by step, the audio interrupt *)
(***************************************************************************)
\* Note-On on channel 1, note 120 (also a velocity), velocity 100
OscBytes == { 144, 120, 100 }

OscMaxRx == 3

OscMaxTicks == 6

OscMaxIsr == 2

InitOsc == InitWith({ 1 })

NextOsc ==
  \/ Receive(OscBytes, OscMaxRx, 0, 0)
  \/ StepENV1(OscMaxTicks)
  \/ StepENV2
  \/ StepContour
  \/ StepLFO
  \/ StepLevel
  \/ StepCount
  \/ StepVibrato
  \/ StepOscFM
  \/ StepOscAM
  \/ Isr(OscMaxIsr)

SpecOsc == InitOsc /\ [][NextOsc]_vars

\* C5: after every interrupt, every oscillator's phase accumulator is within
\* 0 .. (WAVE_TABLE_SIZE << 16) - 1 and equals the previous accumulator plus
\* the phase step, modulo WAVE_TABLE_SIZE << 16.
C5_PhaseWrapped ==
  hist.nIsr > 0 =>
    \A osc \in Osc :
      /\ v.v_OscAngle[osc] >= 0
      /\ v.v_OscAngle[osc] < WAVE_TABLE_SIZE * 65536
      /\ v.v_OscAngle[osc] =
           (hist.isrPrev[osc] + hist.isrStep[osc]) % (WAVE_TABLE_SIZE * 65536)

(***************************************************************************)
(* Program change: whole messages and whole control ticks                  *)
(***************************************************************************)
\* Note-On 60, two patch edits (CC 76, CC 70), a configuration edit (CC 89),
\* Program Change 0 and 20
PresetMessages ==
  { << NOTE_ON_CMD, 60, 100 >>,
    << CONTROL_CHANGE_CMD, 76, 30 >>,
    << CONTROL_CHANGE_CMD, 70, 50 >>,
    << CONTROL_CHANGE_CMD, 89, 50 >>,
    << PROGRAM_CHANGE_CMD, 0 >>,
    << PROGRAM_CHANGE_CMD, 20 >> }

PresetMaxRx == 10

PresetMaxTicks == 2

InitPreset == InitWith({ 1 })

TickPreset == hist.nTick < PresetMaxTicks /\ ControlTask

NextPreset == ReceiveMessage(PresetMessages, PresetMaxRx) \/ TickPreset

SpecPreset == InitPreset /\ [][NextPreset]_vars

\* the step is the dispatch of a Program Change with a program in the catalog
ProgramLoaded ==
  /\ hist'.nRx > hist.nRx
  /\ hist'.event # NoEvent
  /\ hist'.event[1] \div 16 = 12
  /\ hist'.event[2] < GetNumberOfPresets

\* C11: a Program Change with index i below the catalog size leaves the active
\* patch equal to preset record i in every field, PresetLastSelected = i, the
\* note-on flag cleared and both release triggers set, and the reverb constants
\* equal to the values derived from the configuration.
C11_PresetLoaded ==
  [][ ProgramLoaded =>
        /\ g_Patch' = g_PresetPatch[hist'.event[2] + 1]
        /\ g_Config' = [ g_Config EXCEPT !.PresetLastSelected = hist'.event[2] ]
        /\ ~m'.m_NoteOn
        /\ m'.m_TriggerRelease1
        /\ m'.m_TriggerRelease2
        /\ m'.m_RvbDelayLen = (4 * SAMPLE_RATE_HZ) \div 100
        /\ m'.m_RvbDecay = RVB_DECAY_FIXED
        /\ m'.m_RvbAtten = (REVERB_ATTENUATION_PC * 128) \div 100
        /\ m'.m_RvbMix = (g_Config'.ReverbMix_pc * 128) \div 100 ]_vars

\* Program Change 20 has been dispatched while note 60 was sounding (ENV1 in
\* its attack, the release trigger of setup() long served) and after the reverb
\* mix was set to 50 %
C11_Witness ==
  /\ hist.event # NoEvent
  /\ hist.event[1] = PROGRAM_CHANGE_CMD
  /\ hist.event[2] = 20
  /\ g_Patch = g_PresetPatch[21]
  /\ g_Config.PresetLastSelected = 20
  /\ g_Config.ReverbMix_pc = 50
  /\ m.m_RvbMix = 64
  /\ m.m_NotePlaying = 60
  /\ m.env1.EnvSegment = ENV_ATTACK
  /\ ~m.m_NoteOn
  /\ m.m_TriggerRelease1

(***************************************************************************)
(* Notes: whole messages and whole control ticks                           *)
(***************************************************************************)
\* Note-On 60 and 62, Note-On 60 with velocity 0, Note-Off 60 and 62
NoteMessages ==
  { << NOTE_ON_CMD, 60, 100 >>,
    << NOTE_ON_CMD, 62, 100 >>,
    << NOTE_ON_CMD, 60, 0 >>,
    << NOTE_OFF_CMD, 60, 64 >>,
    << NOTE_OFF_CMD, 62, 0 >> }

NoteMaxRx == 9

NoteMaxTicks == 2

InitNote == InitWith({ 1 })

TickNote == hist.nTick < NoteMaxTicks /\ ControlTask

NextNote == ReceiveMessage(NoteMessages, NoteMaxRx) \/ TickNote

SpecNote == InitNote /\ [][NextNote]_vars

\* note numbers compared: the notes played, a neighbour, and the ends of the range
NoteProbes == { 0, 12, 60, 61, 62, 120, 121, 127 }

\* release velocities of the Note-Off frame
VelocityProbes == { 0, 64, 127 }

\* the engine, patch and configuration state a frame leaves behind
EngineAfter(frame) ==
  LET s == Feed(Cur, frame)
  IN  << s.m, s.v, s.patch, s.cfg >>

\* C12: in every state, a Note-On frame with velocity 0 leaves every engine
\* variable exactly as a Note-Off frame for the same note number does.
C12_ZeroVelocityIsNoteOff ==
  \A n \in NoteProbes, vel \in VelocityProbes :
     EngineAfter(<< NOTE_ON_CMD, n, 0 >>) = EngineAfter(<< NOTE_OFF_CMD, n, vel >>)

\* note 60 was struck, ENV1 went into its attack, and a Note-On 60 with
\* velocity 0 has released it
C12_Witness ==
  /\ hist.event = << NOTE_ON_CMD, 60, 0, 3 >>
  /\ m.m_NotePlaying = 60
  /\ m.env1.EnvSegment = ENV_ATTACK
  /\ ~m.m_NoteOn
  /\ m.m_TriggerRelease1
  /\ m.m_TriggerRelease2
  /\ m.m_TriggerReset

(***************************************************************************)
(* Output level: whole messages, the control task step by step, the audio  *)
(* interrupt in between                                                    *)
(***************************************************************************)
\* Note-On 60 at full velocity, Note-On 60 completed by an EOX byte (velocity
\* byte 247), Note-Off 60, output control by constant (CC 86 = 1) and by
\* expression (CC 86 = 3, CC 11 = 127), limiter off (CC 71 = 0), mixer gain 12.7
LevelMessages ==
  { << NOTE_ON_CMD, 60, 127 >>,
    << NOTE_ON_CMD, 60, SYSTEM_MSG_EOX >>,
    << NOTE_OFF_CMD, 60, 0 >>,
    << CONTROL_CHANGE_CMD, 86, 1 >>,
    << CONTROL_CHANGE_CMD, 86, 3 >>,
    << CONTROL_CHANGE_CMD, 11, 127 >>,
    << CONTROL_CHANGE_CMD, 71, 0 >>,
    << CONTROL_CHANGE_CMD, 70, 127 >> }

LevelMaxRx == 9

\* messages arrive up to this control tick
LevelRxTicks == 1

LevelMaxTicks == 6

LevelMaxIsr == 2

InitLevel == InitWith({ 1 })

ReceiveLevel == hist.nTick <= LevelRxTicks /\ ReceiveMessage(LevelMessages, LevelMaxRx)

NextLevel ==
  \/ ReceiveLevel
  \/ StepENV1(LevelMaxTicks)
  \/ StepENV2
  \/ StepContour
  \/ StepLFO
  \/ StepLevel
  \/ StepCount
  \/ StepVibrato
  \/ StepOscFM
  \/ StepOscAM
  \/ Isr(LevelMaxIsr)

SpecLevel == InitLevel /\ [][NextLevel]_vars

\* C13: in every state the output level scalar is within 0 .. 1023, and the
\* limited, attenuated sample an interrupt computes from that state is below
\* full scale in magnitude.
C13_LevelBounded ==
  /\ v.v_OutputLevel >= 0
  /\ v.v_OutputLevel <= 1023
  /\ \A oob \in OobSamples : Abs(IsrAttenOut(Cur, oob)) < IntToFixedPt(1)

\* a note struck with velocity byte 247 sounds: the oscillators have moved off
\* the table's first sample and the interrupt computes a non-zero sample
C13_Witness ==
  /\ hist.nIsr > 0
  /\ m.m_KeyVelocity > IntToFixedPt(1)
  /\ v.v_OutputLevel > 0
  /\ IsrAttenOut(Cur, 0) # 0

(***************************************************************************)
(* Reverberation: a scripted set-up, then the audio interrupt at its rate  *)
(* of SAMPLE_RATE_HZ / 1000 invocations per control tick                   *)
(***************************************************************************)
\* reverb mix 100 % (CC 89), SynthPrepare to derive m_RvbMix from it (CC 120),
\* constant output level (CC 86 = 1), mixer gain 12.7 (CC 70), Note-On 65
ReverbScript ==
  << << CONTROL_CHANGE_CMD, 89, 100 >>,
     << CONTROL_CHANGE_CMD, 120, 0 >>,
     << CONTROL_CHANGE_CMD, 86, 1 >>,
     << CONTROL_CHANGE_CMD, 70, 127 >>,
     << NOTE_ON_CMD, 65, 127 >> >>

ReverbMaxTicks == 90

IsrPerTick == SAMPLE_RATE_HZ \div 1000

InitReverb == InitWith({ 1 })

\* the next message of a script of three-byte messages; the messages
\* first .. last of the script are received right after control tick `tick`,
\* the interrupt running `rate` times between two control ticks
ReceiveScript(script, first, last, tick, rate) ==
  /\ pc = "loop"
  /\ hist.nTick = tick
  /\ hist.nIsr = rate * tick
  /\ \E k \in first .. last :
       /\ hist.nRx = 3 * (k - 1)
       /\ Apply(Feed(Cur, script[k]))
  /\ UNCHANGED pc

\* the control tick that is due after `rate` more interrupts
TickAtRate(maxTicks, rate) ==
  /\ hist.nTick < maxTicks
  /\ hist.nIsr = rate * (hist.nTick + 1)
  /\ ControlTask

\* the interrupt, IsrPerTick invocations between two control ticks
IsrAtRate == Isr(IsrPerTick * (hist.nTick + 1))

NextReverb == ReceiveScript(ReverbScript, 1, 5, 0, IsrPerTick) \/ TickAtRate(ReverbMaxTicks, IsrPerTick) \/ IsrAtRate

SpecReverb == InitReverb /\ [][NextReverb]_vars

\* the sample an interrupt emits from the current state
FinalOutputNow(oob) == IsrFinalOutput(Cur, IsrAttenOut(Cur, oob), IsrReverbOut(Cur))

\* C14: the final sample of every interrupt invocation lies within the
\* engine's full-scale range, -2^20 <= finalOutput < 2^20, the wet
\* contribution of the delay line included.
C14_FinalOutputBounded ==
  \A oob \in OobSamples :
     /\ FinalOutputNow(oob) >= -IntToFixedPt(1)
     /\ FinalOutputNow(oob) < IntToFixedPt(1)

(***************************************************************************)
(* Mixer: the preset's mixer levels published, then all six set to step 0  *)
(***************************************************************************)
\* constant output level (CC 86 = 1), Note-On 65, mixer input step 0 for
\* oscillators 0, 1, 3, 4 and 5 (CC 80; preset 13 has step 0 for oscillator 2)
MixerScript ==
  << << CONTROL_CHANGE_CMD, 86, 1 >>,
     << NOTE_ON_CMD, 65, 127 >>,
     << CONTROL_CHANGE_CMD, 80, 0 >>,
     << CONTROL_CHANGE_CMD, 80, 16 >>,
     << CONTROL_CHANGE_CMD, 80, 48 >>,
     << CONTROL_CHANGE_CMD, 80, 64 >>,
     << CONTROL_CHANGE_CMD, 80, 80 >> >>

MixerMaxTicks == 12

\* the script arrives after the first 5 ms refresh
NextMixer == ReceiveScript(MixerScript, 1, 7, 5, IsrPerTick) \/ TickAtRate(MixerMaxTicks, IsrPerTick) \/ IsrAtRate

SpecMixer == InitReverb /\ [][NextMixer]_vars

\* all six mixer input steps are 0 and the mixer levels published are 0
MixerClosed ==
  \A osc \in Osc : g_Patch.MixerInputStep[osc] = 0 /\ v.v_MixerLevel[osc] = 0

\* C15: once all six MixerInputStep values are 0 and a 5 ms refresh has
\* published the mixer levels, the mixer output and the attenuated sample an
\* interrupt computes are exactly 0, whatever the oscillators, gain, output
\* level and generators hold.
C15_ClosedMixerIsSilent ==
  MixerClosed =>
    \A oob \in OobSamples : IsrMixerOut(Cur, oob) = 0 /\ IsrAttenOut(Cur, oob) = 0

\* the mixer is closed while note 65 sounds at full output level: oscillator 0
\* reads a non-zero sample, its modulation factor and the gain are non-zero
C15_Witness ==
  /\ MixerClosed
  /\ hist.nIsr > IsrPerTick * 10
  /\ m.m_NoteOn
  /\ v.v_OutputLevel = 1023
  /\ v.v_MixerOutGain > 0
  /\ v.v_OscAmpldModn[1] > 0
  /\ IsrSample(Cur, 1, 0) # 0

(***************************************************************************)
(* Dry output: the reverb filled with a sounding note, then mixed out      *)
(***************************************************************************)
\* constant output level and Note-On 65 with the default 15 % wet mix; later
\* wet mix 0 % (CC 89), SynthPrepare through all-sound-off (CC 120), Note-On
DryScript ==
  << << CONTROL_CHANGE_CMD, 86, 1 >>,
     << NOTE_ON_CMD, 65, 127 >>,
     << CONTROL_CHANGE_CMD, 89, 0 >>,
     << CONTROL_CHANGE_CMD, 120, 0 >>,
     << NOTE_ON_CMD, 65, 127 >> >>

\* the control tick after which the wet mix is set to 0: the delay line of
\* 1280 samples has been written once around by then
DrySwitchTick == 46

DryMaxTicks == 48

NextDry ==
  \/ ReceiveScript(DryScript, 1, 2, 0, IsrPerTick)
  \/ ReceiveScript(DryScript, 3, 5, DrySwitchTick, IsrPerTick)
  \/ TickAtRate(DryMaxTicks, IsrPerTick)
  \/ IsrAtRate

SpecDry == InitReverb /\ [][NextDry]_vars

\* an interrupt invocation
IsrStep == hist'.nIsr > hist.nIsr

\* C16: when the derived mix ratio is 0, an interrupt invocation outputs
\* exactly the attenuated dry sample: finalOutput equals attenOut, the DAC
\* word is the one made from attenOut, and the reverb state is not touched,
\* whatever the delay line, its index and the previous tap hold.
C16_DryWhenMixZero ==
  [][(IsrStep /\ m.m_RvbMix = 0) =>
       /\ \A oob \in OobSamples :
            IsrFinalOutput(Cur, IsrAttenOut(Cur, oob), IsrReverbOut(Cur))
              = IsrAttenOut(Cur, oob)
       /\ \E oob \in OobSamples :
            isr'.spiDACdata = IsrDacWord(IsrAttenOut(Cur, oob))
       /\ isr'.ReverbDelayLine = isr.ReverbDelayLine
       /\ isr'.rvbIndex = isr.rvbIndex
       /\ isr'.reverbPrev = isr.reverbPrev]_vars

\* the mix ratio is 0, the delay line's current tap and the previous tap are
\* not 0, the dry sample is not 0, and the interrupt has output it
C16_Witness ==
  /\ m.m_RvbMix = 0
  /\ g_Config.ReverbMix_pc = 0
  /\ hist.nIsr > IsrPerTick * DrySwitchTick + 1
  /\ IsrReverbOut(Cur) # 0
  /\ isr.reverbPrev # 0
  /\ IsrAttenOut(Cur, 0) # 0
  /\ isr.spiDACdata # IsrDacWord(0)



(***************************************************************************)
(* Base2Exp applied to arguments inside and outside its domain             *)
(***************************************************************************)
\* the arguments are the multiples of 1/8 up to ExpSpan eighths either way,
\* the neighbours of -1.0, 0 and +1.0, and the ends of the 32-bit range
ExpSpan == 40

ExpArguments ==
  { k * (IntToFixedPt(1) \div 8) : k \in (0 - ExpSpan) .. ExpSpan }
    \cup { e + d : e \in { IntToFixedPt(-1), 0, IntToFixedPt(1) }, d \in { -1, 1 } }
    \cup { -2147483647 - 1, 2147483647 }

InitExp ==
  /\ pc = "loop"
  /\ \E xval \in ExpArguments :
       LET s == Setup(1)
       IN  /\ rx = s.rx
           /\ g_Config = s.cfg
           /\ g_Patch = s.patch
           /\ m = s.m
           /\ v = s.v
           /\ isr = s.isr
           /\ hist = [ s.hist EXCEPT !.arg = xval ]

\* the call Base2Exp(xval)
CallBase2Exp ==
  /\ ~hist.applied
  /\ hist' = [ hist EXCEPT !.result = Base2Exp(hist.arg), !.applied = TRUE ]
  /\ UNCHANGED << rx, g_Config, g_Patch, m, v, isr, pc >>

SpecExp == InitExp /\ [][CallBase2Exp]_vars

\* C17: Base2Exp(0) = 2^20, Base2Exp(+2^20) = 2^21, Base2Exp(-2^20) = 2^19,
\* and for every argument below -1.0 or above +1.0 the result is 2^20.
C17_Base2ExpFixedPoints ==
  hist.applied =>
    /\ hist.arg = 0 => hist.result = 1048576
    /\ hist.arg = 1048576 => hist.result = 2097152
    /\ hist.arg = -1048576 => hist.result = 524288
    /\ (hist.arg < -1048576 \/ hist.arg > 1048576) => hist.result = 1048576

\* Base2Exp has returned 2.0 for the argument +1.0
C17_Witness ==
  /\ hist.applied
  /\ hist.arg = IntToFixedPt(1)
  /\ hist.result = 2 * IntToFixedPt(1)

(***************************************************************************)
(* One note through the amplitude envelope of preset 0                     *)
(* (attack 5 ms, hold 0, decay 200 ms, sustain 80 %, release 200 ms)       *)
(***************************************************************************)
\* a timing-clock byte and Program Change 0; Note-On 60, velocity 100;
\* Note-Off 60
ScenarioScript ==
  << << 248, PROGRAM_CHANGE_CMD, 0 >>,
     << NOTE_ON_CMD, 60, 100 >>,
     << NOTE_OFF_CMD, 60, 0 >> >>

\* the Note-On arrives when the release SynthPrepare triggers has ended
NoteOnTick == 2 * g_PresetPatch[1].EnvReleaseTime

\* control ticks after the Note-On
ScenarioTicks == 902

NextScenario ==
  \/ ReceiveScript(ScenarioScript, 1, 1, 0, 0)
  \/ ReceiveScript(ScenarioScript, 2, 2, NoteOnTick, 0)
  \/ ReceiveScript(ScenarioScript, 3, 3, NoteOnTick + 500, 0)
  \/ TickAtRate(NoteOnTick + ScenarioTicks, 0)

SpecScenario == InitReverb /\ [][NextScenario]_vars

\* the output level (0..1023) of full envelope at the note's velocity
VelocityScaled == FractionPart(m.m_KeyVelocity, 10)

\* envelope x velocity at the moments of the scenario, as state predicates: `near`
\* is the share (%) of the velocity-scaled level the attack has to reach
ScenarioLevels(near) ==
  LET t == hist.nTick - NoteOnTick
      L == v.v_OutputLevel
  IN  /\ (hist.nRx >= 6 /\ t = 5) => 100 * L >= near * VelocityScaled
      /\ (hist.nRx = 6 /\ t >= 5) =>
           /\ m.env1.EnvSegment = ENV_SUSTAIN
           /\ Abs(100 * L - 80 * VelocityScaled) <= 100
      /\ hist.nRx >= 6 => m.env1.EnvSegment \notin { ENV_PEAK_HOLD, ENV_DECAY }
      /\ (hist.nRx = 9 /\ t >= 900) => 100 * L < (80 * VelocityScaled) \div 100

\* C18: with preset 0's envelope and control source envelope x velocity, a
\* Note-On(60, 100) from idle makes the output level ramp linearly to
\* 0.80 x the velocity-scaled level (the sustain level, not full scale) by
\* tick 5 and hold there, PEAK_HOLD and DECAY skipped; a Note-Off at tick 500
\* makes it fall, never rising, below 1 % of its peak by tick 900.
C18_ScenarioAmended ==
  [][/\ ScenarioLevels(79)
     /\ LET t == hist.nTick - NoteOnTick
        IN  /\ (hist.nRx = 6 /\ t \in 1 .. 5) =>
                 /\ Abs(5 * 100 * v.v_OutputLevel - t * 80 * VelocityScaled) <= 5 * 100
                 /\ 100 * v.v_OutputLevel <= 80 * VelocityScaled
            /\ hist.nRx = 9 => v'.v_OutputLevel <= v.v_OutputLevel]_vars

\* C18 as stated: the ramp reaches near full scale (at least 90 % of the
\* velocity-scaled level) by tick 5, then the level holds at about 0.80 x the
\* velocity-scaled level, and after the Note-Off falls below 1 % by tick 900.
C18_ScenarioAsStated == ScenarioLevels(90)

\* the note released at tick 500 has decayed below 1 % of its peak at tick 900
C18_Witness ==
  /\ hist.nRx = 9
  /\ hist.nTick = NoteOnTick + 900
  /\ g_Patch.EnvAttackTime = 5
  /\ g_Patch.EnvHoldTime = 0
  /\ g_Patch.EnvSustainLevel = 80
  /\ g_Patch.EnvReleaseTime = 200
  /\ VelocityScaled = 800
  /\ v.v_OutputLevel < 8
  /\ m.env1.EnvSegment = ENV_IDLE

(***************************************************************************)
(* Pitch bend: the bend range set by data entry, then the lever moved      *)
(***************************************************************************)
\* data entry (CC 38) for the bend range, and pitch-bend messages with the
\* ends, the centre and its neighbours of both data bytes
BendMessages ==
  { << CONTROL_CHANGE_CMD, 38, r >> : r \in { 0, 1, 7, 11, 12, 13 } }
    \cup { << PITCH_BEND_CMD, lo, hi >> :
             lo \in { 0, 1, 64, 127 }, hi \in { 0, 1, 63, 64, 65, 126, 127 } }

BendMaxRx == 6

SpecBend == InitReverb /\ [][ReceiveMessage(BendMessages, BendMaxRx)]_vars

\* C19: for pitch-bend data bytes lo (first) and hi (second) the value passed
\* to the engine is (hi*128 + lo) - 8192, in -8192 .. 8191 and 0 at the centre
\* (lo = 0, hi = 64), and the stored bend factor ((value x PitchBendRange) / 12)
\* << 7 lies in [-1.0, +1.0) for every accepted PitchBendRange.
C19_PitchBendValue ==
  [][(/\ hist'.nRx > hist.nRx
      /\ hist'.event # NoEvent
      /\ hist'.event[1] = PITCH_BEND_CMD) =>
       LET lo    == hist'.event[2]
           hi    == hist'.event[3]
           value == (hi * 128 + lo) - 8192
       IN  /\ lo \in 0 .. 127 /\ hi \in 0 .. 127
           /\ value \in -8192 .. 8191
           /\ (lo = 0 /\ hi = 64) => value = 0
           /\ g_Config.PitchBendRange \in 0 .. 12
           /\ m'.m_PitchBendFactor = CDiv(value * g_Config.PitchBendRange, 12) * 128
           /\ m'.m_PitchBendFactor >= IntToFixedPt(-1)
           /\ m'.m_PitchBendFactor < IntToFixedPt(1)
           /\ \A range \in 0 .. 12 :
                LET f == SynthPitchBend([ Cur EXCEPT !.cfg.PitchBendRange = range ],
                                        BendWord(hi, lo) - 8192).m.m_PitchBendFactor
                IN  f >= IntToFixedPt(-1) /\ f < IntToFixedPt(1)]_vars

\* the lever fully down with the widest range accepted: the factor is -1.0
C19_Witness ==
  /\ hist.event # NoEvent
  /\ hist.event[1] = PITCH_BEND_CMD
  /\ hist.event[2] = 0
  /\ hist.event[3] = 0
  /\ g_Config.PitchBendRange = 12
  /\ m.m_PitchBendFactor = IntToFixedPt(-1)

(***************************************************************************)
(* The segments of ENV1: a short envelope, notes struck and released at    *)
(* every stage of it                                                       *)
(***************************************************************************)
\* a timing-clock byte and Program Change 15 (attack 5 ms, hold 0, decay 5 ms),
\* release time 100 ms (CC 72), hold time 10 ms (CC 74)
SegmentScript ==
  << << 248, PROGRAM_CHANGE_CMD, 15 >>,
     << CONTROL_CHANGE_CMD, 72, 1 >>,
     << CONTROL_CHANGE_CMD, 74, 1 >> >>

\* hold time 0 (CC 74), Note-On 60, Note-Off 60
SegmentMessages ==
  { << CONTROL_CHANGE_CMD, 74, 0 >>, << NOTE_ON_CMD, 60, 100 >>, << NOTE_OFF_CMD, 60, 0 >> }

\* messages arrive every SegmentStride ticks, during SegmentWindow ticks
SegmentStride == 4
SegmentWindow == 36
SegmentMaxRx == 18

\* the window opens shortly before the release SynthPrepare triggers ends
SegmentWarmUp == 2 * 100 - 2 * SegmentStride

ReceiveSegment ==
  /\ hist.nRx >= 3 * Len(SegmentScript)
  /\ hist.nTick >= SegmentWarmUp
  /\ hist.nTick <= SegmentWarmUp + SegmentWindow
  /\ hist.nTick % SegmentStride = 0
  /\ ReceiveMessage(SegmentMessages, SegmentMaxRx)

NextSegment ==
  \/ ReceiveScript(SegmentScript, 1, 3, 0, 0)
  \/ ReceiveSegment
  \/ TickAtRate(SegmentWarmUp + 2 * SegmentWindow, 0)

SpecSegment == InitReverb /\ [][NextSegment]_vars

\* C20: the segment of ENV1 changes only at a control tick and only along:
\* any segment to ATTACK on an attack trigger, any segment to RELEASE on a
\* release trigger, ATTACK to PEAK_HOLD to DECAY to SUSTAIN by timer, ATTACK
\* directly to SUSTAIN, RELEASE to IDLE by timer; with hold time 0 at the end
\* of the attack SUSTAIN is entered directly, PEAK_HOLD is entered only from
\* ATTACK with a hold time and DECAY only from PEAK_HOLD; SUSTAIN and IDLE are
\* left only by a trigger.
C20_SegmentTransitions ==
  [][LET seg   == m.env1.EnvSegment
         seg2  == m'.env1.EnvSegment
         tick  == hist'.nTick > hist.nTick
         att   == m.m_TriggerAttack1
         rel   == m.m_TriggerRelease1
         timer == m.env1.envPhaseTimer + 1
         free  == ~att /\ ~rel
     IN  /\ ~tick => seg2 = seg
         /\ (tick /\ seg2 # seg) =>
              \/ seg2 = ENV_ATTACK /\ att
              \/ seg2 = ENV_RELEASE /\ rel
              \/ /\ free /\ seg = ENV_ATTACK /\ seg2 = ENV_PEAK_HOLD
                 /\ timer >= g_Patch.EnvAttackTime /\ g_Patch.EnvHoldTime # 0
              \/ /\ free /\ seg = ENV_PEAK_HOLD /\ seg2 = ENV_DECAY
                 /\ timer >= g_Patch.EnvHoldTime
              \/ /\ free /\ seg = ENV_DECAY /\ seg2 = ENV_SUSTAIN
                 /\ timer >= 2 * g_Patch.EnvDecayTime
              \/ /\ free /\ seg = ENV_ATTACK /\ seg2 = ENV_SUSTAIN
                 /\ timer >= g_Patch.EnvAttackTime /\ g_Patch.EnvHoldTime = 0
              \/ /\ free /\ seg = ENV_RELEASE /\ seg2 = ENV_IDLE
                 /\ timer >= 2 * g_Patch.EnvReleaseTime
         /\ (/\ tick /\ free /\ seg = ENV_ATTACK
             /\ timer >= g_Patch.EnvAttackTime /\ g_Patch.EnvHoldTime = 0) =>
              seg2 = ENV_SUSTAIN
         /\ (seg \in { ENV_SUSTAIN, ENV_IDLE } /\ seg2 # seg) => att \/ rel]_vars

\* a note struck from IDLE with hold time 0 is in SUSTAIN at the end of its
\* attack
C20_Witness ==
  /\ hist.nRx = 3 * Len(SegmentScript) + 6
  /\ hist.nTick = SegmentWarmUp + 3 * SegmentStride + g_Patch.EnvAttackTime
  /\ g_Patch.EnvHoldTime = 0
  /\ m.m_NoteOn
  /\ m.env1.EnvSegment = ENV_SUSTAIN
  /\ m.env1.envPhaseTimer = 0

(***************************************************************************)
(* Both envelopes through a whole cycle: preset 14 with hold 10 ms, decay  *)
(* 100 ms and release 100 ms; ENV2 has attack 10 ms, hold 20 ms and decay  *)
(* and release 100 ms                                                      *)
(***************************************************************************)
CycleScript ==
  << << 248, PROGRAM_CHANGE_CMD, 14 >>,
     << CONTROL_CHANGE_CMD, 74, 1 >>,
     << CONTROL_CHANGE_CMD, 75, 1 >>,
     << CONTROL_CHANGE_CMD, 72, 1 >>,
     << NOTE_ON_CMD, 60, 100 >>,
     << NOTE_OFF_CMD, 60, 0 >> >>

\* the Note-On arrives when the releases SynthPrepare triggers have ended
CycleOn == 2 * 100

\* the Note-Off arrives CycleEarly ticks after the Note-On, with both
\* envelopes in DECAY, or CycleLate ticks after it, with both in SUSTAIN
CycleEarly == 100
CycleLate == 270

\* control ticks after the Note-On
CycleTicks == 480

NextCycle ==
  \/ ReceiveScript(CycleScript, 1, 4, 0, 0)
  \/ ReceiveScript(CycleScript, 5, 5, CycleOn, 0)
  \/ ReceiveScript(CycleScript, 6, 6, CycleOn + CycleEarly, 0)
  \/ ReceiveScript(CycleScript, 6, 6, CycleOn + CycleLate, 0)
  \/ TickAtRate(CycleOn + CycleTicks, 0)

SpecCycle == InitReverb /\ [][NextCycle]_vars

\* one control tick of an envelope generator with statics e -> e2 and output
\* out2 after it, decay time D, release time R and triggers att, rel pending:
\* the timer counts the ticks of DECAY from 0 and those of RELEASE from the
\* tick that consumed the trigger, and the segment ends before it reaches
\* twice the time
EndsInTime(e, e2, out2, D, R, att, rel) ==
  /\ (e.EnvSegment # ENV_DECAY /\ e2.EnvSegment = ENV_DECAY) => e2.envPhaseTimer = 0
  /\ (~att /\ ~rel /\ e.EnvSegment = ENV_DECAY) =>
       /\ e2.envPhaseTimer = e.envPhaseTimer + 1
       /\ e2.EnvSegment = IF e2.envPhaseTimer < 2 * D THEN ENV_DECAY ELSE ENV_SUSTAIN
  /\ (~att /\ rel) => (e2.EnvSegment = ENV_RELEASE /\ e2.envPhaseTimer = 1)
  /\ (~att /\ ~rel /\ e.EnvSegment = ENV_RELEASE) =>
       /\ e2.envPhaseTimer = e.envPhaseTimer + 1
       /\ e2.EnvSegment = IF e2.envPhaseTimer < 2 * R THEN ENV_RELEASE ELSE ENV_IDLE
  /\ (~att /\ ~rel /\ e.EnvSegment = ENV_IDLE) => out2 = 0

\* C21: with no trigger and unchanged patch times, for ENV1 and ENV2, DECAY
\* ends in SUSTAIN no later than 2 x decay time ticks after it began, and
\* RELEASE ends in IDLE, the output 0 on the following tick, no later than
\* 2 x release time ticks after the release trigger was consumed.
C21_DecayAndReleaseEnd ==
  [][hist'.nTick > hist.nTick =>
       /\ EndsInTime(m.env1, m'.env1, m'.m_ENV1_Output, g_Patch.EnvDecayTime,
                     g_Patch.EnvReleaseTime, m.m_TriggerAttack1, m.m_TriggerRelease1)
       /\ EndsInTime(m.env2, m'.env2, m'.m_ENV2_Output, g_Patch.Env2DecayTime,
                     g_Patch.Env2DecayTime, m.m_TriggerAttack2, m.m_TriggerRelease2)
       /\ LET t == hist'.nTick - CycleOn
              A == g_Patch.EnvAttackTime + g_Patch.EnvHoldTime
          IN  /\ (hist.nRx = 15 /\ t >= A + 2 * g_Patch.EnvDecayTime) =>
                   m'.env1.EnvSegment = ENV_SUSTAIN
              /\ (hist.nRx = 15 /\ t >= ENV2_ATTACK_MS + ENV2_HOLD_MS + 2 * g_Patch.Env2DecayTime) =>
                   m'.env2.EnvSegment = ENV_SUSTAIN
              /\ (hist.nRx = 18 /\ t >= CycleLate + 2 * g_Patch.EnvReleaseTime) =>
                   m'.env1.EnvSegment = ENV_IDLE
              /\ (hist.nRx = 18 /\ t >= CycleLate + 2 * g_Patch.Env2DecayTime) =>
                   m'.env2.EnvSegment = ENV_IDLE
              /\ (hist.nRx = 18 /\ t > CycleLate + 2 * g_Patch.EnvReleaseTime) =>
                   m'.m_ENV1_Output = 0 /\ m'.m_ENV2_Output = 0]_vars

\* ENV2 has just left DECAY for SUSTAIN, 2 x 100 ticks after it entered it
C21_Witness ==
  /\ hist.nRx = 15
  /\ hist.nTick = CycleOn + ENV2_ATTACK_MS + ENV2_HOLD_MS + 2 * g_Patch.Env2DecayTime
  /\ g_Patch.Env2DecayTime = 100
  /\ m.env2.EnvSegment = ENV_SUSTAIN
  /\ m.env2.envPhaseTimer = 2 * g_Patch.Env2DecayTime
  /\ m.env1.EnvSegment = ENV_DECAY

(***************************************************************************)
(* The envelope outputs during DECAY and RELEASE                           *)
(***************************************************************************)
\* one control tick of an envelope generator with statics e, output out
\* before and out2 after it, and triggers att, rel pending: a tick of DECAY
\* does not raise the output and keeps it at or above the sustain level, a
\* tick of RELEASE does not raise it and keeps it at or above 0
FallsWithin(e, out, out2, att, rel) ==
  /\ (~att /\ ~rel /\ e.EnvSegment = ENV_DECAY) =>
       (out2 <= out /\ out2 >= e.sustainLevel)
  /\ (~att /\ (rel \/ e.EnvSegment = ENV_RELEASE)) =>
       (out2 <= out /\ out2 >= 0)

\* C22: during DECAY the envelope output is non-increasing from tick to tick
\* and never below the sustain level latched at the attack trigger; during
\* RELEASE it is non-increasing from tick to tick and never negative.
C22_DecayAndReleaseFall ==
  [][hist'.nTick > hist.nTick =>
       /\ FallsWithin(m.env1, m.m_ENV1_Output, m'.m_ENV1_Output,
                      m.m_TriggerAttack1, m.m_TriggerRelease1)
       /\ FallsWithin(m.env2, m.m_ENV2_Output, m'.m_ENV2_Output,
                      m.m_TriggerAttack2, m.m_TriggerRelease2)]_vars

(***************************************************************************)
(* The range of the envelope outputs                                       *)
(***************************************************************************)
\* C23: in every reachable state, also with an attack triggered again while
\* the previous note is still in RELEASE, DECAY or SUSTAIN at a non-zero
\* level, both envelope outputs lie in 0 .. FIXED_MAX_LEVEL.
C23_EnvelopeOutputsInRange ==
  /\ m.m_ENV1_Output >= 0 /\ m.m_ENV1_Output <= FIXED_MAX_LEVEL
  /\ m.m_ENV2_Output >= 0 /\ m.m_ENV2_Output <= FIXED_MAX_LEVEL

(***************************************************************************)
(* The frequency ceiling                                                   *)
(***************************************************************************)
\* the phase step of MAX_OSC_FREQ_HZ: (WAVE_TABLE_SIZE << 16) * 12000 / 32000
CeilingStep ==
  ((WAVE_TABLE_SIZE * 65536) \div (SAMPLE_RATE_HZ \div 1000)) * (MAX_OSC_FREQ_HZ \div 1000)

\* Note-On 114 (F#8, 5919.92 Hz) and the pitch-bend lever fully up
CeilingScript == << << NOTE_ON_CMD, 114, 100 >>, << PITCH_BEND_CMD, 127, 127 >> >>

CeilingMaxTicks == 6

NextCeiling ==
  \/ ReceiveScript(CeilingScript, 1, 2, 0, IsrPerTick)
  \/ TickAtRate(CeilingMaxTicks, IsrPerTick)
  \/ IsrAtRate

SpecCeiling == InitReverb /\ [][NextCeiling]_vars

\* C24: whenever the interrupt runs, every oscillator whose published phase
\* step is above the step of the 12 kHz ceiling has v_MixerLevel = 0.
C24_AboveCeilingMuted ==
  \A osc \in Osc : v.v_OscStep[osc] > CeilingStep => v.v_MixerLevel[osc] = 0

(***************************************************************************)
(* Writers of the variables shared by the interrupt and the control task   *)
(***************************************************************************)
\* C25: each shared variable has one writing context: the interrupt writes
\* none of the phase steps, modulation factors, mixer levels, output gain,
\* output level, limiter thresholds, enable flag, reverb coefficients, patch,
\* configuration, trigger and generator variables; the control task and the
\* parser write none of the phase accumulators, the reverb delay line, its
\* index and the previous tap.
C25_OneWriter ==
  [][/\ IsrStep =>
          /\ v' = [ v EXCEPT !.v_OscAngle = v'.v_OscAngle ]
          /\ m' = m
          /\ g_Patch' = g_Patch
          /\ g_Config' = g_Config
          /\ rx' = rx
     /\ ~IsrStep =>
          /\ v'.v_OscAngle = v.v_OscAngle
          /\ isr'.ReverbDelayLine = isr.ReverbDelayLine
          /\ isr'.rvbIndex = isr.rvbIndex
          /\ isr'.reverbPrev = isr.reverbPrev]_vars

\* SynthPrepare has run (CC 120) and a control tick after it, with the phase
\* accumulators, the delay line's index and the previous tap not 0; the
\* interrupt has run since and the levels the control task published stand
C25_Witness ==
  /\ hist.nRx = 12
  /\ hist.nTick > DrySwitchTick
  /\ hist.nIsr > IsrPerTick * hist.nTick
  /\ isr.rvbIndex # 0
  /\ isr.reverbPrev # 0
  /\ \A osc \in Osc : v.v_OscAngle[osc] # 0 /\ v.v_OscStep[osc] # 0
  /\ v.v_OutputLevel # 0


(***************************************************************************)
(* C26  What the audio interrupt depends on                                *)
(***************************************************************************)
\* states of the control side that the interrupt never looks at: a patch,
\* a configuration, trigger flags and generator states from elsewhere
ControlSides ==
  { Zeroed(1),
    Feed(PresetSelect(Setup(1), 0), << NOTE_ON_CMD, 72, 127 >>),
    SynthProcess(Feed(PresetSelect(Setup(1), 15), << NOTE_ON_CMD, 48, 1 >>)) }

\* the state s with everything replaced that is not an interrupt-visible
\* scalar: the v_ variables, the delay line with its index and previous
\* output, and the four reverb coefficients stay
SameForInterrupt(s, other) ==
  [ s EXCEPT !.patch = other.patch,
             !.cfg = other.cfg,
             !.rx = other.rx,
             !.m = [ other.m EXCEPT !.m_RvbDelayLen = s.m.m_RvbDelayLen,
                                    !.m_RvbDecay = s.m.m_RvbDecay,
                                    !.m_RvbAtten = s.m.m_RvbAtten,
                                    !.m_RvbMix = s.m.m_RvbMix ] ]

\* C26: in every reachable state, the interrupt run on the state and on any
\* state that agrees with it on the interrupt-visible scalars but differs in
\* the patch, the configuration, the trigger flags and the generator states
\* produces the same DAC word, the same phase accumulators and the same
\* delay line, index and previous reverb output, whatever an out-of-table
\* read returns.
C26_InterruptSeesOnlyItsScalars ==
  \A oob \in (IF AngleOutside THEN OobSamples ELSE { 0 }) :
    \E a \in { TC3_Handler(Cur, oob) } :
      \A other \in ControlSides :
        \E b \in { TC3_Handler(SameForInterrupt(Cur, other), oob) } :
          /\ a.isr = b.isr
          /\ a.v = b.v

C26_Witness ==
  /\ hist.nIsr > m.m_RvbDelayLen
  /\ v.v_SynthEnable = 1
  /\ IsrAttenOut(Cur, 0) # 0
  /\ IsrReverbOut(Cur) # 0
  /\ m.m_RvbMix # 0
  /\ TC3_Handler(Cur, 0).isr # isr
  /\ \A other \in ControlSides :
       /\ other.patch # g_Patch
       /\ other.m.m_ENV1_Output # m.m_ENV1_Output
       /\ other.m.m_NoteOn # m.m_NoteOn \/ other.m.m_NotePlaying # m.m_NotePlaying


(***************************************************************************)
(* C27  The limiter thresholds seen by the interrupt                       *)
(***************************************************************************)
\* AudioLevelController() up to and including the store to
\* v_LimiterLevelPos; v_LimiterLevelNeg still holds its previous value
AudioLevelControllerLimit(s) ==
  [ AudioLevelController(s) EXCEPT !.v.v_LimiterLevelNeg = s.v.v_LimiterLevelNeg ]

\* v_LimiterLevelNeg = 0 - v_LimiterLevelPos, the last statement of
\* AudioLevelController(): a second store to a volatile, with interrupts on
LimiterLevelNegStore(s) == [ s EXCEPT !.v.v_LimiterLevelNeg = 0 - s.v.v_LimiterLevelPos ]

StepLevelPos == Step("Level", "LevelNeg", AudioLevelControllerLimit(Cur))

StepLevelNeg == Step("LevelNeg", "Count", LimiterLevelNegStore(Cur))

\* CC 71 (limiter level, percent) and a preset change
LimiterMessages ==
  { << CONTROL_CHANGE_CMD, 71, 50 >>,
    << CONTROL_CHANGE_CMD, 71, 0 >>,
    << PROGRAM_CHANGE_CMD, 0 >> }

LimiterMaxRx == 3

LimiterMaxTicks == 6

LimiterMaxIsr == 2

NextLimiter ==
  \/ ReceiveMessage(LimiterMessages, LimiterMaxRx)
  \/ StepENV1(LimiterMaxTicks)
  \/ StepENV2
  \/ StepContour
  \/ StepLFO
  \/ StepLevelPos
  \/ StepLevelNeg
  \/ StepCount
  \/ StepVibrato
  \/ StepOscFM
  \/ StepOscAM
  \/ Isr(LimiterMaxIsr)

SpecLimiter == InitReverb /\ [][NextLimiter]_vars

\* C27: at every interrupt invocation, wherever it falls in the control
\* task and in the parser's handling of CC 71 or of a preset change, the
\* two limiter thresholds it reads are symmetric:
\* v_LimiterLevelNeg = -v_LimiterLevelPos.
C27_SymmetricClamp ==
  [][IsrStep => v.v_LimiterLevelNeg = 0 - v.v_LimiterLevelPos]_vars


(***************************************************************************)
(* C28  What one call of the control task evaluates                        *)
(***************************************************************************)
\* the engine's state without the call counter of SynthProcess
EngineOf(s) == << [ s.m EXCEPT !.count5ms = 0 ], s.v, s.patch, s.cfg >>

\* C28: every call of the control task evaluates the amplitude envelope,
\* the transient envelope, the contour generator and the output-level
\* controller exactly once each (with the LFO, in the order of the source),
\* and evaluates the vibrato ramp, the frequency modulation and the
\* amplitude-modulation and mixer-level refresh, once each, exactly when
\* the call is the 5th, 10th, 15th, ... since setup(), and on no other call.
C28_OncePerCallAndEveryFifth ==
  [][hist'.nTick > hist.nTick =>
       \E x \in { SynthProcess1ms(Cur) } :
         EngineOf([ m |-> m', v |-> v', patch |-> g_Patch', cfg |-> g_Config' ])
           = EngineOf(IF hist'.nTick % 5 = 0 THEN SynthProcess5ms(x) ELSE x)]_vars

\* the fourth call after the Note-On has been made: the 5 ms routines, had
\* they run, would have published new phase steps
C28_Witness ==
  /\ hist.nRx = 15
  /\ hist.nTick = CycleOn + 4
  /\ m.count5ms = 4
  /\ SynthProcess5ms(Cur).v.v_OscStep # v.v_OscStep
  /\ SynthProcess1ms(Cur).m.env1 # m.env1


(***************************************************************************)
(* C29  One source of frequency modulation                                 *)
(***************************************************************************)
\* Note-On, the vibrato mode (CC 87), the pitch-bend mode (CC 88), the
\* modulation lever (CC 1) and the pitch-bend lever at both ends
FMMessages ==
  { << NOTE_ON_CMD, 60, 100 >>,
    << CONTROL_CHANGE_CMD, 87, 2 >>,
    << CONTROL_CHANGE_CMD, 87, 1 >>,
    << CONTROL_CHANGE_CMD, 88, 0 >>,
    << CONTROL_CHANGE_CMD, 1, 127 >>,
    << PITCH_BEND_CMD, 127, 127 >>,
    << PITCH_BEND_CMD, 0, 0 >> }

FMMaxRx == 9

FMStride == 4

FMMaxTicks == 16

NextFM ==
  \/ (hist.nTick % FMStride = 0 /\ ReceiveMessage(FMMessages, FMMaxRx))
  \/ TickAtRate(FMMaxTicks, 0)

SpecFM == InitReverb /\ [][NextFM]_vars

\* the state as it would be in a run that differs in Pitch-Bend messages:
\* another lever position received, other phase steps published so far
OtherBend(s) ==
  { [ Feed(s, msg) EXCEPT !.v.v_OscStep = steps ] :
      msg \in { << PITCH_BEND_CMD, 0, 64 >>, << PITCH_BEND_CMD, 127, 127 >>,
                << PITCH_BEND_CMD, 0, 0 >> },
      steps \in { s.v.v_OscStep, Six(0) } }

\* the state with the LFO and the vibrato ramp generator somewhere else
OtherLFO(s) ==
  { [ s EXCEPT !.m.m_LFO_output = lfo, !.m.m_LFO_PhaseAngle = lfo,
               !.m.m_RampOutput = ramp, !.m.ramp.rampState = st ] :
      lfo \in { 0, 4096 }, ramp \in { 0, FIXED_MAX_LEVEL }, st \in { 0, 2 } }

\* C29: at every 5 ms tick one source sets the frequency deviation.  With a
\* non-zero vibrato mode the phase steps published are those of any run
\* that differs only in Pitch-Bend messages; with vibrato disabled and
\* pitch bend enabled they are those of any run with another LFO and
\* vibrato-ramp state; with both disabled they are the detuned steps, the
\* deviation factor being exactly 1.0.
C29_OneModulationSource ==
  [][(hist'.nTick > hist.nTick /\ hist'.nTick % 5 = 0) =>
       /\ g_Config.VibratoCtrlMode # 0 =>
            \A other \in OtherBend(Cur) : SynthProcess(other).v.v_OscStep = v'.v_OscStep
       /\ (g_Config.VibratoCtrlMode = 0 /\ g_Config.PitchBendMode # 0) =>
            \A other \in OtherLFO(Cur) : SynthProcess(other).v.v_OscStep = v'.v_OscStep
       /\ (g_Config.VibratoCtrlMode = 0 /\ g_Config.PitchBendMode = 0) =>
            v'.v_OscStep = m'.m_OscStepDetune]_vars

\* vibrato on, the pitch-bend lever off centre, a note sounding: the steps
\* published at the tick follow the LFO and not the lever
C29_Witness ==
  /\ hist.nTick > 0
  /\ hist.nTick % 5 = 0
  /\ g_Config.VibratoCtrlMode # 0
  /\ g_Config.PitchBendMode # 0
  /\ m.m_PitchBendFactor # 0
  /\ m.m_LFO_output # 0
  /\ \A osc \in Osc : m.m_OscMuted[osc] \/ v.v_OscStep[osc] # m.m_OscStepDetune[osc]
  /\ \E osc \in Osc : v.v_OscStep[osc] # 0
  /\ v.v_OscStep = OscFreqModulation(Cur).v.v_OscStep


(***************************************************************************)
(* C30  The fast down-ramp of the vibrato ramp generator                   *)
(***************************************************************************)
\* preset 6 (LFO_RampTime 5 ms) and a first note
RampScript == << << 248, PROGRAM_CHANGE_CMD, 6 >>, << NOTE_ON_CMD, 60, 100 >> >>

\* a second key, the first key again, and the first key released
RampMessages ==
  { << NOTE_ON_CMD, 62, 100 >>, << NOTE_ON_CMD, 60, 100 >>, << NOTE_OFF_CMD, 60, 0 >> }

\* ticks at which messages arrive: in DELAY, in RAMP_UP, at full depth and
\* during the down-ramp
RampSlots == { 7, 17, 32, 42 }

RampMaxRx == 15

RampMaxTicks == 140

\* below this output (0.01) the down-ramp ends
RampFloor == CDiv(IntToFixedPt(1), 100)

\* history of the down-ramp: what started it, from which state, and the
\* number of 5 ms calls it has taken so far
\* and whether a new note has been triggered since the last 5 ms call
RampHistory(s0, h) ==
  LET pre      == SynthProcess1ms(s0)
      five     == s0.m.count5ms + 1 >= 5
      entering == /\ five
                  /\ s0.patch.LFO_RampTime # 0
                  /\ pre.m.ramp.rampState # 3
                  /\ (~pre.m.m_NoteOn \/ pre.m.m_LegatoNoteChange)
  IN  [ h EXCEPT
          !.downBy    = IF entering
                          THEN (IF pre.m.m_LegatoNoteChange THEN "legato" ELSE "off")
                          ELSE @,
          !.downFrom  = IF entering THEN pre.m.ramp.rampState ELSE @,
          !.downTicks = IF ~five THEN @
                        ELSE IF entering THEN 1
                        ELSE IF pre.m.ramp.rampState = 3 THEN @ + 1 ELSE 0,
          !.fresh     = ~five /\ (@ \/ (s0.m.m_TriggerAttack1 /\ s0.m.m_NoteOn)) ]

\* loop(): the control task, with the down-ramp's history kept
TickRamp ==
  /\ pc = "loop"
  /\ hist.nTick < RampMaxTicks
  /\ \E s1 \in { SynthProcess(Cur) } :
       Apply([ s1 EXCEPT !.hist = RampHistory(Cur, TickHistory(Cur, s1)) ])
  /\ UNCHANGED pc

NextRamp ==
  \/ ReceiveScript(RampScript, 1, 2, 0, 0)
  \/ (hist.nRx >= 6 /\ hist.nTick \in RampSlots /\ ReceiveMessage(RampMessages, RampMaxRx))
  \/ TickRamp

SpecRamp == InitReverb /\ [][NextRamp]_vars

\* a 5 ms call of VibratoRampGenerator in which the generator is in the
\* down-ramp it entered from DELAY or RAMP_UP
DownRampCall ==
  /\ hist'.nTick > hist.nTick
  /\ m.count5ms = 4
  /\ g_Patch.LFO_RampTime # 0
  /\ hist'.downTicks >= 1
  /\ hist'.downFrom \in { 1, 2 }

\* the call leaves the generator in RAMP_DOWN, or the ramp has ended in it
\* with the output below 0.01; the output has not risen, and the ramp has
\* taken at most 20 calls
DownRampRuns ==
  /\ m'.ramp.rampState = 3 \/ (m'.ramp.rampState \in { 0, 1 } /\ m'.m_RampOutput < RampFloor)
  /\ m'.m_RampOutput <= m.m_RampOutput
  /\ hist'.downTicks <= 20

\* C30, amended: with a non-zero ramp time, a note-off or legato change
\* seen in DELAY or RAMP_UP puts the generator into RAMP_DOWN at the next
\* 5 ms tick; RAMP_DOWN lasts at most 20 ticks with non-increasing output,
\* and ends in DELAY with the legato flag cleared if the legato flag is set
\* when the output falls below 0.01, otherwise in IDLE.
C30_DownRampAmended ==
  [][DownRampCall =>
       /\ DownRampRuns
       /\ m'.ramp.rampState # 3 =>
            IF SynthProcess1ms(Cur).m.m_LegatoNoteChange
              THEN m'.ramp.rampState = 1 /\ ~m'.m_LegatoNoteChange
              ELSE m'.ramp.rampState = 0]_vars

\* C30, as stated: the same, with the end decided by what caused the
\* down-ramp: DELAY with the legato flag cleared after a legato change,
\* IDLE after a note-off.
C30_DownRampAsStated ==
  [][DownRampCall =>
       /\ DownRampRuns
       /\ m'.ramp.rampState # 3 =>
            IF hist'.downBy = "legato"
              THEN m'.ramp.rampState = 1 /\ ~m'.m_LegatoNoteChange
              ELSE m'.ramp.rampState = 0]_vars

\* a down-ramp from full depth, started by a note-off in RAMP_UP, has just
\* ended with its 20th call
C30_Witness ==
  /\ hist.downTicks = 20
  /\ hist.downFrom = 2
  /\ hist.downBy = "off"
  /\ g_Patch.LFO_RampTime # 0
  /\ m.ramp.rampState = 0
  /\ m.m_RampOutput < RampFloor
  /\ m.count5ms = 0


(***************************************************************************)
(* C31  The vibrato delay of a new note                                    *)
(***************************************************************************)
\* a 5 ms call of VibratoRampGenerator that finds a note gated on which
\* was newly triggered (not a legato change) since the previous 5 ms call
NewNoteCall ==
  /\ hist'.nTick > hist.nTick
  /\ m.count5ms = 4
  /\ g_Patch.LFO_RampTime # 0
  /\ hist.fresh \/ m.m_TriggerAttack1
  /\ m.m_NoteOn
  /\ ~m.m_LegatoNoteChange

\* C31: with a non-zero ramp time, once the generator has seen a new
\* (non-legato) Note-On its output is 0 (a down-ramp still running apart),
\* also when the Note-On follows the previous note's Note-Off within the
\* same 5 ms interval.
C31_NewNoteStartsAtZero ==
  [][NewNoteCall => (m'.m_RampOutput = 0 \/ m'.ramp.rampState = 3)]_vars


(***************************************************************************)
(* C32  The contour generator and the last note event                      *)
(***************************************************************************)
\* C32: after each control tick (no note event pending), the contour
\* generator reflects the most recent note event: while the note is gated
\* on it is in DELAY, RAMP or HOLD and never IDLE, and after the matching
\* Note-Off it is IDLE, in whatever order a Note-On and a Note-Off arrived
\* between two ticks.
C32_ContourFollowsGate ==
  (hist.nTick > 0 /\ ~m.m_TriggerContour /\ ~m.m_TriggerReset) =>
    (m.m_NoteOn <=> m.contour.contourSegment # CONTOUR_IDLE)


(***************************************************************************)
(* C33  Legato note change                                                 *)
(***************************************************************************)
\* keys in the middle of the range and the two lowest C keys, which the
\* octave fold of SynthNoteChange and SynthNoteOff maps to the same note
LegatoMessages ==
  { << NOTE_ON_CMD, 60, 100 >>, << NOTE_ON_CMD, 62, 90 >>,
    << NOTE_ON_CMD, 0, 100 >>, << NOTE_ON_CMD, 12, 90 >>,
    << NOTE_OFF_CMD, 60, 0 >>, << NOTE_OFF_CMD, 62, 0 >>,
    << NOTE_OFF_CMD, 0, 0 >>, << NOTE_OFF_CMD, 12, 0 >> }

LegatoMaxRx == 9

LegatoMaxTicks == 2

NextLegato ==
  \/ ReceiveMessage(LegatoMessages, LegatoMaxRx)
  \/ TickAtRate(LegatoMaxTicks, 0)

SpecLegato == InitReverb /\ [][NextLegato]_vars

\* the message just received is a Note-On with a velocity above 0, and a
\* note was gated on when it came
LegatoReceived ==
  /\ hist'.nRx > hist.nRx
  /\ hist'.event # NoEvent
  /\ hist'.event[1] = NOTE_ON_CMD
  /\ hist'.event[3] > 0
  /\ m.m_NoteOn

\* the message just received is a Note-Off, and it came after a legato
\* note change with the note still gated on
NoteOffAfterLegato ==
  /\ hist'.nRx > hist.nRx
  /\ hist'.event # NoEvent
  /\ hist'.event[1] = NOTE_OFF_CMD
  /\ m.m_NoteOn
  /\ hist.earlier >= 0

\* what a legato Note-On may change, and nothing else
LegatoFrame ==
  /\ m' = [ m EXCEPT !.m_NotePlaying = FoldNote(hist'.event[2]),
                     !.m_OscStepInit = m'.m_OscStepInit,
                     !.m_OscMuted = m'.m_OscMuted,
                     !.m_LegatoNoteChange = TRUE ]
  /\ v' = v
  /\ g_Patch' = g_Patch
  /\ g_Config' = g_Config

\* the voice is released, nothing else
Released ==
  /\ m' = [ m EXCEPT !.m_TriggerRelease1 = TRUE, !.m_TriggerRelease2 = TRUE,
                     !.m_TriggerReset = TRUE, !.m_NoteOn = FALSE ]
  /\ v' = v

\* the engine is as it was
EngineUnchanged == m' = m /\ v' = v /\ g_Patch' = g_Patch /\ g_Config' = g_Config

\* C33, amended: a Note-On received while a note is gated on changes only
\* the playing note number, the initial phase steps, the mute flags and the
\* legato flag; afterwards a Note-Off releases the voice exactly when its
\* note number, after the octave fold, equals the folded new note number,
\* and any other Note-Off leaves all state unchanged.
C33_LegatoAmended ==
  [][/\ LegatoReceived => LegatoFrame
     /\ NoteOffAfterLegato =>
          IF FoldNote(hist'.event[2]) = FoldNote(hist.lastNote)
            THEN Released ELSE EngineUnchanged]_vars

\* C33, as stated: afterwards only a Note-Off for the new note number
\* releases the voice; a Note-Off for the earlier note leaves all state
\* unchanged.
C33_LegatoAsStated ==
  [][/\ LegatoReceived => LegatoFrame
     /\ NoteOffAfterLegato =>
          /\ hist'.event[2] = hist.lastNote => Released
          /\ hist'.event[2] # hist.lastNote => EngineUnchanged]_vars

\* key 62 was played legato over key 60, and the Note-Off for key 60 has
\* just been ignored
C33_Witness ==
  /\ hist.event # NoEvent
  /\ hist.event[1] = NOTE_OFF_CMD
  /\ hist.event[2] = 60
  /\ hist.earlier = 60
  /\ hist.lastNote = 62
  /\ m.m_NotePlaying = 62
  /\ m.m_NoteOn
  /\ m.m_LegatoNoteChange
  /\ m.m_KeyVelocity = CDiv(IntToFixedPt(100), 128)


(***************************************************************************)
(* C34  Registered parameter and data entry                                *)
(***************************************************************************)
\* CC 100 with parameters 0, 1 and 2, CC 38 around its limits, and messages
\* of other kinds
RegisMessages ==
  { << CONTROL_CHANGE_CMD, 100, d >> : d \in { 0, 1, 2 } }
    \cup { << CONTROL_CHANGE_CMD, 38, d >> : d \in { 0, 12, 13, 70 } }
    \cup { << PROGRAM_CHANGE_CMD, 3 >>,
           << NOTE_ON_CMD, 60, 100 >>,
           << CONTROL_CHANGE_CMD, 7, 100 >>,
           << PITCH_BEND_CMD, 0, 80 >> }

RegisMaxRx == 9

SpecRegis == InitReverb /\ [][ReceiveMessage(RegisMessages, RegisMaxRx)]_vars

\* the registered parameter selected so far: 0 when no CC 100 has come
RegisSelected == IF hist.regis = -1 THEN 0 ELSE hist.regis

\* C34: a data-entry controller (CC 38) with data byte d sets the pitch-bend
\* range to d only if the most recent CC 100 value was 0 (or none has been
\* received) and d <= 12, sets fine tuning to d - 64 only if that value was
\* 1, and changes nothing otherwise; messages of other kinds in between do
\* not change the selection.
C34_DataEntry ==
  [][(/\ hist'.nRx > hist.nRx
      /\ hist'.event # NoEvent
      /\ hist'.event[1] = CONTROL_CHANGE_CMD
      /\ hist'.event[2] = 38) =>
       /\ g_Config' =
            IF RegisSelected = 0 /\ hist'.event[3] <= 12
              THEN [ g_Config EXCEPT !.PitchBendRange = hist'.event[3] ]
            ELSE IF RegisSelected = 1
              THEN [ g_Config EXCEPT !.FineTuning_cents = hist'.event[3] - 64 ]
            ELSE g_Config
       /\ g_Patch' = g_Patch
       /\ m' = m
       /\ v' = v]_vars

\* fine tuning was selected, a program change came in between, and the
\* data entry has set fine tuning to +6 cents
C34_Witness ==
  /\ hist.regis = 1
  /\ hist.nRx = 8
  /\ hist.event # NoEvent
  /\ hist.event[1] = CONTROL_CHANGE_CMD
  /\ hist.event[2] = 38
  /\ hist.event[3] = 70
  /\ g_Config.PresetLastSelected = 3
  /\ g_Config.FineTuning_cents = 6
  /\ g_Config.PitchBendRange = 2


(***************************************************************************)
(* C35  Real-time bytes                                                    *)
(***************************************************************************)
RealTimeBytes == 248 .. 255

\* C35: in every state the parser can be in (between frames, between the
\* bytes of a frame, between running-status data pairs, after a frame on
\* another channel), a real-time byte 0xF8..0xFF leaves the framing state
\* and everything else unchanged and dispatches no event; so any number of
\* them inserted anywhere in a byte stream changes neither the framing nor
\* the sequence of dispatched events.
C35_RealTimeIgnored ==
  \A msgByte \in RealTimeBytes :
    \E s1 \in { MidiInputService(Cur, msgByte, "none") } :
      /\ s1.rx = rx
      /\ s1.hist.event = NoEvent
      /\ s1.cfg = g_Config
      /\ s1.patch = g_Patch
      /\ s1.m = m
      /\ s1.v = v

\* a real-time byte has just come between the two data bytes of a
\* running-status frame
C35_Witness ==
  /\ hist.rxByte = 248
  /\ rx.msgComplete
  /\ rx.msgStatus = 144
  /\ rx.msgByteCount = 2
  /\ rx.msgIndex = 2
  /\ hist.event = NoEvent


-----------------------------------------------------------------------------
\* Unsupported frames: MIDI_GetMessageLength gives polyphonic key pressure the
\* length 0 and channel pressure the length 2; MidiInputService takes a byte
\* as a status byte only when it is <= SYS_EXCLUSIVE_MSG, so the system-common
\* status bytes 0xF1..0xF6 are skipped and their data bytes reach the data
\* branch under the status that was current before them.

HandledCC ==
  {1, 2, 7, 11, 33, 34, 38, 39, 43, 100, 112, 120, 123} \cup (70 .. 80) \cup (86 .. 89)

UnsupportedFrames ==
  { <<POLY_KEY_PRESS_CMD, 60, 64>>, <<CHAN_PRESSURE_CMD, 64>>,
    <<241, 5>>, <<242, 48, 64>>, <<243, 3>>, <<246>>,
    <<CONTROL_CHANGE_CMD, 3, 64>>, <<CONTROL_CHANGE_CMD, 102, 5>> }

SupportedFrames ==
  { <<NOTE_ON_CMD, 62, 90>>, <<CONTROL_CHANGE_CMD, 7, 50>>, <<PITCH_BEND_CMD, 0, 96>> }

\* The frames MidiInputService hands to ProcessMidiMessage while the bytes are
\* received one after another, in order.
RECURSIVE Dispatched(_, _)
Dispatched(s, bytes) ==
  IF bytes = << >> THEN << >>
  ELSE LET s1 == MidiInputService(s, Head(bytes), "none")
           s2 == [ s1 EXCEPT !.hist = RxHistory(s, s1, Head(bytes)) ]
       IN  (IF s1.hist.event = NoEvent THEN << >> ELSE << s1.hist.event >>)
             \o Dispatched(s2, Tail(bytes))

\* A dispatched frame that comes to a note, controller, program or pitch-bend
\* case of ProcessMidiMessage and ProcessControlChange.
IsHandledEvent(ev) ==
  LET command == (ev[1] \div 16) * 16
  IN  \/ command \in { NOTE_ON_CMD, NOTE_OFF_CMD, PROGRAM_CHANGE_CMD, PITCH_BEND_CMD }
      \/ command = CONTROL_CHANGE_CMD /\ ev[2] \in HandledCC

\* C36: a frame of an unsupported command class (0xA0, 0xD0, 0xF1..0xF6 with
\* its data bytes) or a Control Change with an unhandled controller number
\* leaves patch, configuration and engine unchanged, dispatches no note,
\* controller, program or pitch-bend event, and the next supported frame is
\* parsed and dispatched as it stands.
C36_UnsupportedIgnored ==
  \A f \in UnsupportedFrames :
    \E s1 \in { Feed(Cur, f) } :
      /\ SynthPart(s1) = SynthPart(Cur)
      /\ \A i \in DOMAIN Dispatched(Cur, f) : ~IsHandledEvent(Dispatched(Cur, f)[i])
      /\ \A g \in SupportedFrames :
           Dispatched(s1, g) = << <<g[1], g[2], g[3], 3>> >>


-----------------------------------------------------------------------------
\* Divisors of the control tick.  AmpldEnvelopeGenerator divides by
\* g_Patch.EnvAttackTime at an attack trigger and by timeConstant (a fifth of
\* the decay or release time) in DECAY and RELEASE; TransientEnvelopeGen does
\* the same with Env2DecayTime; ContourGenerator divides by
\* g_Patch.ContourRampTime at a contour trigger.  The patch comes from the
\* preset table and from controllers 72..75.

DivisorMessages ==
  { << PROGRAM_CHANGE_CMD, p >> : p \in 0 .. GetNumberOfPresets }
    \cup { << CONTROL_CHANGE_CMD, cc, d >> : cc \in { 72, 73, 75 }, d \in { 0, 1, 100, 101 } }
    \cup { << CONTROL_CHANGE_CMD, 74, d >> : d \in { 0, 1 } }

DivisorNotes == { << NOTE_ON_CMD, 60, 100 >>, << NOTE_OFF_CMD, 60, 0 >> }

DivisorSetupRx == 5

DivisorMaxRx == 11

DivisorMaxTicks == 34

DivisorSlots == { 0, 3, 32 }

NextDivisor ==
  \/ (hist.nTick = 0 /\ ReceiveMessage(DivisorMessages, DivisorSetupRx))
  \/ (hist.nTick \in DivisorSlots /\ ReceiveMessage(DivisorNotes, DivisorMaxRx))
  \/ TickAtRate(DivisorMaxTicks, 0)

SpecDivisor == InitReverb /\ [][NextDivisor]_vars

\* C37: in every reachable patch the attack time and the contour ramp time are
\* at least 1 where a trigger divides by them, a fifth of each decay and
\* release time is at least 1, and the time constant of either envelope is at
\* least 1 whenever its segment is DECAY or RELEASE.
C37_NoDivisionByZero ==
  /\ g_Patch.EnvAttackTime >= 1
  /\ g_Patch.ContourRampTime >= 1
  /\ g_Patch.EnvDecayTime \div 5 >= 1
  /\ g_Patch.EnvReleaseTime \div 5 >= 1
  /\ g_Patch.Env2DecayTime \div 5 >= 1
  /\ m.env1.EnvSegment \in { ENV_DECAY, ENV_RELEASE } => m.env1.timeConstant >= 1
  /\ m.env2.EnvSegment \in { ENV_DECAY, ENV_RELEASE } => m.env2.timeConstant >= 1
  /\ \A preset \in 1 .. GetNumberOfPresets :
       /\ g_PresetPatch[preset].EnvAttackTime >= 1
       /\ g_PresetPatch[preset].ContourRampTime >= 1
       /\ g_PresetPatch[preset].EnvDecayTime \div 5 >= 1
       /\ g_PresetPatch[preset].EnvReleaseTime \div 5 >= 1
       /\ g_PresetPatch[preset].Env2DecayTime \div 5 >= 1

\* The envelope is in DECAY with the smallest time constant the preset table
\* gives (decay time 5 ms), after a controller gave the preset a hold time.
C37_Witness ==
  /\ m.env1.EnvSegment = ENV_DECAY
  /\ m.env1.timeConstant = 1
  /\ g_Patch.EnvDecayTime = 5
  /\ m.env2.EnvSegment = ENV_PEAK_HOLD
  /\ hist.nTick > 0


-----------------------------------------------------------------------------
\* The interrupt's arithmetic is done in 32-bit signed integers (fixed_t);
\* MultiplyFixed alone forms a 64-bit product and stores bits 20..51 of it.

\* a * b lies in -2^31 .. 2^31 - 1
ProductFits(a, b) ==
  LET d == MulDigits(Abs(a), Abs(b))
  IN  /\ d[5] = 0
      /\ d[4] = 0
      /\ \/ d[3] < 2
         \/ (d[3] = 2 /\ d[2] = 0 /\ d[1] = 0 /\ ((a < 0) # (b < 0)))

\* a + b lies in -2^31 .. 2^31 - 1
SumFits(a, b) ==
  /\ (a >= 0 /\ b >= 0) => a <= 2147483647 - b
  /\ (a < 0 /\ b < 0) => a >= (-2147483647 - 1) - b

\* bits 20..51 of the 64-bit product a * b fit the fixed_t they are stored to
FixedFits(a, b) ==
  LET d == MulDigits(Abs(a), Abs(b))
  IN  /\ d[5] = 0
      /\ \/ d[4] < 64
         \/ (d[4] = 64 /\ d[3] = 0 /\ d[2] = 0 /\ d[1] = 0 /\ ((a < 0) # (b < 0)))

\* the products and sums of the oscillator loop of TC3_Handler, one after
\* another, each within the 32-bit range
IsrMixerFits(s, oob) ==
  /\ \A osc \in Osc :
       /\ ProductFits(IsrSample(s, osc, oob) * 32, s.v.v_OscAmpldModn[osc])
       /\ ProductFits(IsrMixedUnscaled(s, osc, oob), s.v.v_MixerLevel[osc])
  /\ SumFits(IsrMixed(s, 1, oob), IsrMixed(s, 2, oob))
  /\ SumFits(Add32(IsrMixed(s, 1, oob), IsrMixed(s, 2, oob)), IsrMixed(s, 3, oob))
  /\ SumFits(Add32(Add32(IsrMixed(s, 1, oob), IsrMixed(s, 2, oob)), IsrMixed(s, 3, oob)),
             IsrMixed(s, 4, oob))
  /\ SumFits(Add32(Add32(Add32(IsrMixed(s, 1, oob), IsrMixed(s, 2, oob)),
                         IsrMixed(s, 3, oob)), IsrMixed(s, 4, oob)),
             IsrMixed(s, 5, oob))
  /\ SumFits(Add32(Add32(Add32(Add32(IsrMixed(s, 1, oob), IsrMixed(s, 2, oob)),
                               IsrMixed(s, 3, oob)), IsrMixed(s, 4, oob)),
                   IsrMixed(s, 5, oob)),
             IsrMixed(s, 6, oob))

\* mixerOut * v_MixerOutGain within the 32-bit range
IsrGainFits(s, oob) == ProductFits(IsrMixerSum(s, oob), s.v.v_MixerOutGain)

\* the attenuator, the delay line and the wet/dry mix of TC3_Handler, each
\* product and sum within the 32-bit range
IsrOutputFits(s, oob) ==
  \E atten \in { IsrAttenOut(s, oob) }, rvb \in { IsrReverbOut(s) } :
    /\ ProductFits(IsrMixerOut(s, oob), s.v.v_OutputLevel)
    /\ s.m.m_RvbMix # 0 =>
         /\ FixedFits(DelayRead(s.isr.ReverbDelayLine, s.isr.rvbIndex), s.m.m_RvbDecay)
         /\ SumFits(rvb, s.isr.reverbPrev)
         /\ ProductFits(atten, s.m.m_RvbAtten)
         /\ SumFits(Shr(Mul32(atten, s.m.m_RvbAtten), 7), Shr(Add32(rvb, s.isr.reverbPrev), 1))
         /\ ProductFits(atten, 128 - s.m.m_RvbMix)
         /\ ProductFits(rvb, s.m.m_RvbMix)
         /\ SumFits(Shr(Mul32(atten, 128 - s.m.m_RvbMix), 7), Shr(Mul32(rvb, s.m.m_RvbMix), 7))

\* what the control task has published is within the ranges the interrupt
\* is written for
PublishedInRange ==
  /\ \A osc \in Osc : v.v_OscAmpldModn[osc] \in 0 .. 1000 /\ v.v_MixerLevel[osc] \in 0 .. 1000
  /\ v.v_OutputLevel \in 0 .. 1023
  /\ m.m_RvbMix \in 0 .. 128
  /\ m.m_RvbAtten \in 0 .. 128

\* C38: for every value the control task can publish, no product or sum of
\* the interrupt's signal chain leaves the signed 32-bit range.
C38_NoOverflow ==
  (v.v_SynthEnable # 0 /\ PublishedInRange) =>
    \A oob \in (IF AngleOutside THEN OobSamples ELSE { 0 }) :
      /\ IsrMixerFits(Cur, oob)
      /\ IsrGainFits(Cur, oob)
      /\ IsrOutputFits(Cur, oob)


\* Preset 3 (three oscillators on the fundamental), their mixer inputs raised
\* to step 15 by controller 80, the mixer gain set to 12.7 by controller 70,
\* and a note.
GainScript ==
  << << 248, PROGRAM_CHANGE_CMD, 3 >>,
     << CONTROL_CHANGE_CMD, 80, 15 >>,
     << CONTROL_CHANGE_CMD, 80, 31 >>,
     << CONTROL_CHANGE_CMD, 80, 47 >>,
     << CONTROL_CHANGE_CMD, 70, 127 >>,
     << NOTE_ON_CMD, 60, 127 >> >>

GainMaxTicks == 6

NextGain ==
  \/ ReceiveScript(GainScript, 1, 6, 0, IsrPerTick)
  \/ TickAtRate(GainMaxTicks, IsrPerTick)
  \/ IsrAtRate

SpecGain == InitReverb /\ [][NextGain]_vars


-----------------------------------------------------------------------------
\* Controller 89 stores g_Config.ReverbMix_pc; TC3_Handler mixes with m_RvbMix,
\* which SynthPrepare derives from the configuration.

\* the mix ratio of the configured percentage: (ReverbMix_pc << 7) / 100
ConfiguredMix(s) == (s.cfg.ReverbMix_pc * 128) \div 100

\* C39: once controller 89 has been accepted, every invocation of the
\* interrupt mixes wet and dry with the ratio of the newly configured
\* percentage, with no program change or all-sound-off message in between.
C39_MixFollowsController ==
  [][(IsrStep /\ v.v_SynthEnable # 0) =>
       /\ m.m_RvbMix = ConfiguredMix(Cur)
       /\ \A oob \in (IF AngleOutside THEN OobSamples ELSE { 0 }) :
            TC3_Handler(Cur, oob).isr.spiDACdata =
              TC3_Handler([ Cur EXCEPT !.m.m_RvbMix = ConfiguredMix(Cur) ], oob).isr.spiDACdata]_vars


-----------------------------------------------------------------------------
\* Table lookups of the parser and the control task: g_NoteFrequency[noteNum-12]
\* and g_FreqMultConst[...] in SynthNoteChange, g_AmpldLevelLogScale_x1000[step]
\* in OscAmpldModulation, g_base2exp[idx] and g_base2exp[idx+1] in Base2Exp,
\* g_sine_wave[waveIdx] in LowFrequencyOscillator.

LookupNotes == { 0, 11, 12, 60, 120, 121, 127 }

LookupPrograms == { 0, 3, GetNumberOfPresets - 1, GetNumberOfPresets }

LookupMessages ==
  { << NOTE_ON_CMD, n, 100 >> : n \in LookupNotes }
    \cup { << CONTROL_CHANGE_CMD, 80, d >> : d \in { 0, 15, 95, 127 } }
    \cup { << CONTROL_CHANGE_CMD, 77, d >> : d \in { 0, 1, 50, 51 } }
    \cup { << PROGRAM_CHANGE_CMD, p >> : p \in LookupPrograms }

LookupMaxRx == 6

LookupMaxTicks == 27

NextLookup ==
  \/ (hist.nTick = 0 /\ ReceiveMessage(LookupMessages, LookupMaxRx))
  \/ TickAtRate(LookupMaxTicks, 0)

SpecLookup == InitReverb /\ [][NextLookup]_vars

\* idx of Base2Exp: the 10 most significant bits of the 13-bit x coordinate
Base2ExpIdx(xval0) ==
  LET xval == IF xval0 < IntToFixedPt(-1) \/ xval0 > IntToFixedPt(1) THEN 0 ELSE xval0
  IN  FractionPart(CDiv(xval + IntToFixedPt(1), 2), 13) \div 8

\* Base2Exp reads the table unless xval is exactly 1.0
Base2ExpReadsTable(xval0) == xval0 # IntToFixedPt(1)

\* C40: every table index of the parser and the control task is in range:
\* the note-frequency index is 0..108 for every note byte after the octave
\* fold, the mixer log-scale index is 0..16 for every reachable
\* MixerInputStep, idx and idx + 1 of the exponential table are at most 1024
\* for every argument, and the LFO's sine-table index is 0..2047.
C40_LookupsInRange ==
  /\ Len(g_NoteFrequency_x10000) = 109
  /\ \A noteNum \in 0 .. 127 : FoldNote(noteNum) - 12 \in 0 .. 108
  /\ (hist.event # NoEvent /\ hist.event[1] = NOTE_ON_CMD) => m.m_NotePlaying - 12 \in 0 .. 108
  /\ Len(g_AmpldLevelLogScale_x1000) = 17
  /\ \A osc \in Osc : g_Patch.MixerInputStep[osc] \in 0 .. 16
  /\ \A osc \in Osc : g_Patch.OscFreqMult[osc] \in 0 .. (Len(g_FreqMultConst_x1000000) - 1)
  /\ \A preset \in 1 .. GetNumberOfPresets, osc \in Osc :
       /\ g_PresetPatch[preset].MixerInputStep[osc] \in 0 .. 16
       /\ g_PresetPatch[preset].OscFreqMult[osc] \in 0 .. (Len(g_FreqMultConst_x1000000) - 1)
  /\ Len(g_base2exp) = 1025
  /\ \A xval \in ExpArguments :
       Base2ExpReadsTable(xval) => (Base2ExpIdx(xval) >= 0 /\ Base2ExpIdx(xval) + 1 <= 1024)
  /\ Len(g_sine_wave) >= WAVE_TABLE_SIZE
  /\ m.m_LFO_Step \in 0 .. (WAVE_TABLE_SIZE * 256 - 1)
  /\ Shr(m.m_LFO_PhaseAngle, 8) \in 0 .. (WAVE_TABLE_SIZE - 1)

\* The LFO at its highest accepted frequency has come round to the last entry
\* of the sine table, with the highest note byte folded and playing.
C40_Witness ==
  /\ g_Patch.LFO_Freq_x10 = 500
  /\ Shr(m.m_LFO_PhaseAngle, 8) = WAVE_TABLE_SIZE - 1
  /\ m.m_NotePlaying = 115
  /\ hist.nTick > 20
=============================================================================
